---- MODULE Spec2Model ----
(***************************************************************************)
(* cozyvalues-gen: annotation scanner, type graph builder, default         *)
(* populator, undefined-type collection, values validator and the driver   *)
(* that runs them and writes the requested outputs.                        *)
(*                                                                         *)
(* Strings are TLA+ strings; the Go string functions the code uses are     *)
(* defined below on them (TLC evaluates Len, SubSeq and \o on strings).    *)
(* A graph is a function from a node's path (the names from the root) to   *)
(* the node's fields; a node's children are the paths one longer.          *)
(***************************************************************************)
EXTENDS Integers, Sequences, FiniteSets, TLC

VARIABLES
    pc,         \* position of the run
    lines,      \* the annotation lines of the values file
    lines2,     \* the lines of the second values file of a comparison
    vals,       \* the values document of the values file (YAML root)
    flags,      \* requested outputs: outGo, outCRD, outSchema, outReadme
    env,        \* environment: README heading present, schema compiler failing, map iteration order
    rows,       \* openapi.Parse result
    tree,       \* openapi.Build result, then mutated by PopulateDefaults
    built,      \* the graph as Build left it (before PopulateDefaults)
    genErr,     \* error of Generate: the undefined types, or <<>>
    meta,       \* readme.parseMetadataComments result (params, typeFields, knownTypes)
    err,        \* the fatal error the run ended with, or ""
    files,      \* output files written so far: name -> content
    rows2,      \* rows parsed from the second file of a comparison
    tree2,      \* second graph of a comparison
    globals     \* the readme package's variables: valuesMap, typeFields, knownTypesCache, enumBaseTypes

vars == <<pc, lines, lines2, vals, flags, env, rows, tree, built, genErr, meta, err, files, rows2, tree2, globals>>

(***************************************************************************)
(* Go strings                                                              *)
(***************************************************************************)
Drop(s, n) == SubSeq(s, n + 1, Len(s))

HasPrefix(s, p) == Len(s) >= Len(p) /\ SubSeq(s, 1, Len(p)) = p

HasSuffix(s, p) == Len(s) >= Len(p) /\ SubSeq(s, Len(s) - Len(p) + 1, Len(s)) = p

TrimPrefix(s, p) == IF HasPrefix(s, p) THEN Drop(s, Len(p)) ELSE s

\* strings.Index(s, c) for a one-character c: 0-based, -1 when absent
RECURSIVE IndexFrom(_, _, _)
IndexFrom(s, c, i) ==
    IF i > Len(s) THEN -1
    ELSE IF SubSeq(s, i, i) = c THEN i - 1
    ELSE IndexFrom(s, c, i + 1)

Index(s, c) == IndexFrom(s, c, 1)

RECURSIVE LastIndexFrom(_, _, _)
LastIndexFrom(s, c, i) ==
    IF i < 1 THEN -1
    ELSE IF SubSeq(s, i, i) = c THEN i - 1
    ELSE LastIndexFrom(s, c, i - 1)

LastIndex(s, c) == LastIndexFrom(s, c, Len(s))

Contains(s, c) == Index(s, c) # -1

\* strings.IndexAny(s, " \t")
IndexSpace(s) == Index(s, " ")

RECURSIVE TrimLeft(_, _)
TrimLeft(s, cut) ==
    IF Len(s) > 0 /\ SubSeq(s, 1, 1) \in cut THEN TrimLeft(Drop(s, 1), cut) ELSE s

RECURSIVE TrimRight(_, _)
TrimRight(s, cut) ==
    IF Len(s) > 0 /\ SubSeq(s, Len(s), Len(s)) \in cut
    THEN TrimRight(SubSeq(s, 1, Len(s) - 1), cut) ELSE s

\* strings.Trim(s, cutset)
Trim(s, cut) == TrimRight(TrimLeft(s, cut), cut)

TrimSpace(s) == Trim(s, {" "})

\* strings.Join(seq, sep)
RECURSIVE Join(_, _)
Join(seq, sep) ==
    IF Len(seq) = 0 THEN ""
    ELSE IF Len(seq) = 1 THEN seq[1]
    ELSE seq[1] \o sep \o Join(Tail(seq), sep)

\* sort.Strings on a set of names that the model compares by this fixed order
SeqToSet(q) == {q[i] : i \in 1..Len(q)}

\* byte order of the characters the model's strings draw on
Alphabet == " \"*,-.0123456789:=ABCDEFGHIJKLMNOPQRSTUVWXYZ[]_abcdefghijklmnopqrstuvwxyz{}"

RECURSIVE StrLess(_, _)
StrLess(a, b) ==
    IF Len(b) = 0 THEN FALSE
    ELSE IF Len(a) = 0 THEN TRUE
    ELSE LET x == Index(Alphabet, SubSeq(a, 1, 1))
             y == Index(Alphabet, SubSeq(b, 1, 1))
         IN  IF x # y THEN x < y ELSE StrLess(Drop(a, 1), Drop(b, 1))

\* sort.Strings / sortedKeys: the names of a set in ascending order
RECURSIVE SortStrings(_)
SortStrings(S) ==
    IF S = {} THEN <<>>
    ELSE LET m == CHOOSE x \in S : \A y \in S \ {x} : StrLess(x, y)
         IN  <<m>> \o SortStrings(S \ {m})

(***************************************************************************)
(* openapi: annotation parsing                                             *)
(***************************************************************************)
kParam == "kParam"
kField == "kField"
kTypedef == "kTypedef"
kEnum == "kEnum"

aliasQuantity == "quantity"
aliasDuration == "duration"
aliasTime == "time"
aliasObject == "object"
aliasEmptyObject == "emptyobject"
aliasResources == "resources"
aliasRequest == "request"
aliasLimit == "limit"

stringFormats ==
    {"bsonobjectid", "uri", "email", "hostname", "ipv4", "ipv6", "cidr", "mac",
     "uuid", "uuid3", "uuid4", "uuid5", "isbn", "isbn10", "isbn13", "creditcard",
     "ssn", "hexcolor", "rgbcolor", "byte", "password", "date"}

isStringFormat(s) == s \in stringFormats

\* A line of the file as the scanner's regular expressions see it: tag is the
\* annotation the line matches ("other": none of them), typ the text in braces,
\* name the name token as written (brackets kept), def the text after "=",
\* desc the text after " - ".
Line(tag, typ, name, def, desc) ==
    [tag |-> tag, typ |-> typ, name |-> name, def |-> def, desc |-> desc]

Raw(K, Path, TypeExpr, Enums, DefaultVal, Description, OmitEmpty) ==
    [K |-> K, Path |-> Path, TypeExpr |-> TypeExpr, Enums |-> Enums,
     DefaultVal |-> DefaultVal, Description |-> Description, OmitEmpty |-> OmitEmpty]

NoEnum == [K |-> "none"]

\* the scanner's loop state: out, currentEnum, enumValues
ParseState(out, cur, ev) == [out |-> out, cur |-> cur, ev |-> ev]

\* a finalization that appends the enum without the values collected for it
FinalizeWithoutValues(st) ==
    IF st.cur # NoEnum THEN ParseState(Append(st.out, st.cur), NoEnum, <<>>) ELSE st

\* "If we were collecting enum values, finalize the enum"
FinalizeEnum(st) ==
    IF st.cur # NoEnum
    THEN ParseState(Append(st.out, [st.cur EXCEPT !.Enums = st.ev]), NoEnum, <<>>)
    ELSE st

\* a search that takes the closest typedef or enum for the parent
RECURSIVE ParentTypeOrEnum(_, _)
ParentTypeOrEnum(out, i) ==
    IF i < 1 THEN ""
    ELSE IF out[i].K \in {kTypedef, kEnum} THEN out[i].Path[1]
    ELSE ParentTypeOrEnum(out, i - 1)

\* "Find the parent type by looking at recent typedefs"
RECURSIVE ParentType(_, _)
ParentType(out, i) ==
    IF i < 1 THEN ""
    ELSE IF out[i].K = kTypedef THEN out[i].Path[1]
    ELSE ParentType(out, i - 1)

\* one iteration of Parse's loop over the lines
ParseLine(st, l) ==
    IF l.tag = "value" /\ st.cur # NoEnum
    THEN [st EXCEPT !.ev = Append(st.ev, l.name)]
    ELSE IF l.tag = "param"
    THEN LET f == FinalizeEnum(st)
             r == Raw(kParam, <<Trim(l.name, {"[", "]"})>>, TrimSpace(l.typ), <<>>, l.def,
                      l.desc, HasPrefix(l.name, "[") /\ HasSuffix(l.name, "]"))
         IN  [f EXCEPT !.out = Append(f.out, r)]
    ELSE IF l.tag = "typedef"
    THEN LET f == FinalizeEnum(st)
             r == Raw(kTypedef, <<l.name>>, "struct", <<>>, "", l.desc, FALSE)
         IN  [f EXCEPT !.out = Append(f.out, r)]
    ELSE IF l.tag = "enum"
    THEN LET out == IF st.cur # NoEnum
                    THEN Append(st.out, [st.cur EXCEPT !.Enums = st.ev])
                    ELSE st.out
         IN  ParseState(out, Raw(kEnum, <<l.name>>, TrimSpace(l.typ), <<>>, "", l.desc, FALSE), <<>>)
    ELSE IF l.tag = "field"
    THEN LET f == FinalizeEnum(st)
             parentType == ParentType(f.out, Len(f.out))
             r == Raw(kField, <<parentType, Trim(l.name, {"[", "]"})>>, TrimSpace(l.typ), <<>>,
                      l.def, l.desc, HasPrefix(l.name, "[") /\ HasSuffix(l.name, "]"))
         IN  IF parentType # "" THEN [f EXCEPT !.out = Append(f.out, r)] ELSE f
    ELSE st

\* a loop in which a line matching no pattern closes the enum being collected
RECURSIVE ParseLoopClosing(_, _, _)
ParseLoopClosing(st, ls, i) ==
    IF i > Len(ls) THEN st
    ELSE ParseLoopClosing(IF ls[i].tag = "other" THEN FinalizeEnum(st) ELSE ParseLine(st, ls[i]),
                          ls, i + 1)

RECURSIVE ParseLoop(_, _, _)
ParseLoop(st, ls, i) ==
    IF i > Len(ls) THEN st ELSE ParseLoop(ParseLine(st, ls[i]), ls, i + 1)

\* openapi.Parse: the rows of a readable file ("Finalize any pending enum" last)
Parse(ls) == FinalizeEnum(ParseLoop(ParseState(<<>>, NoEnum, <<>>), ls, 1)).out

(***************************************************************************)
(* openapi: in-memory tree with implicit types                             *)
(***************************************************************************)
Node(Name, IsParam, TypeExpr, Enums, DefaultVal, Comment, OmitEmpty) ==
    [Name |-> Name, IsParam |-> IsParam, TypeExpr |-> TypeExpr, Enums |-> Enums,
     DefaultVal |-> DefaultVal, Comment |-> Comment, OmitEmpty |-> OmitEmpty]

newNode(name) == Node(name, FALSE, "", <<>>, "", "", FALSE)

\* the tree holding the root "Config" alone: no path below it
EmptyTree == [p \in {} |-> newNode("")]

\* ensure(parent, name), the child's path being path
ensure(g, path) ==
    IF path \in DOMAIN g THEN g ELSE g @@ (path :> newNode(path[Len(path)]))

\* the children of the node at path (<<>>: the root)
ChildPaths(g, path) ==
    {q \in DOMAIN g : Len(q) = Len(path) + 1 /\ SubSeq(q, 1, Len(path)) = path}

isPrimitive(t) ==
    \/ isStringFormat(t)
    \/ t \in {"string", "bool", "int", "int32", "int64", "float32", "float64",
              aliasQuantity, aliasDuration, aliasTime,
              aliasObject, aliasResources, aliasRequest, aliasLimit}

isPrim(s) == isPrimitive(TrimPrefix(s, "*"))

addImplicit(g, name) ==
    IF name = "" \/ isPrim(name) \/ HasPrefix(name, "[]") \/ HasPrefix(name, "map[")
    THEN g
    ELSE ensure(g, <<name>>)

\* "Add implicit types": the switch on the row's type expression
ImplicitBase(typeExpr) ==
    LET te == TrimSpace(typeExpr)
    IN  IF HasPrefix(te, "[]")
        THEN TrimPrefix(TrimSpace(Drop(te, 2)), "*")
        ELSE IF HasPrefix(te, "map[") /\ Contains(te, "]")
        THEN TrimPrefix(TrimSpace(Drop(te, Index(te, "]") + 1)), "*")
        ELSE TrimPrefix(te, "*")

\* the default a declaration leaves on a node that held old
BuildDefault(old, r) == IF r.DefaultVal # "" THEN r.DefaultVal ELSE old

\* one iteration of Build's loop over the rows
BuildRow(g, r) ==
    IF r.K = kTypedef
    THEN LET g1 == ensure(g, r.Path)
         IN  [g1 EXCEPT ![r.Path].Comment = r.Description, ![r.Path].TypeExpr = "struct"]
    ELSE IF r.K = kEnum
    THEN LET g1 == ensure(g, r.Path)
         IN  [g1 EXCEPT ![r.Path].Comment = r.Description, ![r.Path].TypeExpr = r.TypeExpr,
                        ![r.Path].Enums = r.Enums]
    ELSE IF r.K = kParam
    THEN LET g1 == ensure(g, r.Path)
             g2 == [g1 EXCEPT ![r.Path].IsParam = TRUE, ![r.Path].TypeExpr = r.TypeExpr,
                              ![r.Path].Comment = r.Description, ![r.Path].Enums = r.Enums,
                              ![r.Path].OmitEmpty = r.OmitEmpty,
                              ![r.Path].DefaultVal = BuildDefault(@, r)]
         IN  addImplicit(g2, ImplicitBase(r.TypeExpr))
    ELSE IF Len(r.Path) < 2
    THEN g
    ELSE LET g0 == ensure(g, <<r.Path[1]>>)
             g1 == ensure(g0, r.Path)
             g2 == [g1 EXCEPT ![r.Path].TypeExpr = r.TypeExpr,
                              ![r.Path].Comment = r.Description, ![r.Path].Enums = r.Enums,
                              ![r.Path].OmitEmpty = r.OmitEmpty,
                              ![r.Path].DefaultVal = BuildDefault(@, r)]
         IN  addImplicit(g2, ImplicitBase(r.TypeExpr))

RECURSIVE BuildLoop(_, _, _)
BuildLoop(g, rs, i) ==
    IF i > Len(rs) THEN g ELSE BuildLoop(BuildRow(g, rs[i]), rs, i + 1)

\* openapi.Build
Build(rs) == BuildLoop(EmptyTree, rs, 1)

(***************************************************************************)
(* The values document (the YAML the file holds): a value is null, a       *)
(* scalar with its text, a map from keys to values or a sequence.          *)
(***************************************************************************)
YNull == [k |-> "null"]
YStr(s) == [k |-> "string", s |-> s]
YInt(s) == [k |-> "int", s |-> s]
YBool(s) == [k |-> "bool", s |-> s]
YMap(m) == [k |-> "map", m |-> m]
YArr(a) == [k |-> "array", a |-> a]
NoKeys == [x \in {} |-> YNull]

IsScalar(v) == v.k \in {"string", "int", "bool"}

\* the keys of a Go map in the order an iteration visits them: Go leaves the
\* order open, order fixes one (the keys order does not hold follow, ascending)
RECURSIVE VisitOrder(_, _)
VisitOrder(keys, order) ==
    IF Len(order) = 0 THEN SortStrings(keys)
    ELSE (IF Head(order) \in keys THEN <<Head(order)>> ELSE <<>>)
         \o VisitOrder(keys \ {Head(order)}, Tail(order))

Spaces(n) == SubSeq("                ", 1, n)

\* sigyaml.Marshal: block YAML, map keys sorted, nested maps indented by two
RECURSIVE YamlBlock(_, _)
YamlBlock(v, ind) ==
    IF v.k = "null" THEN "null\n"
    ELSE IF IsScalar(v) THEN (IF v.k = "string" /\ v.s = "" THEN "\"\"" ELSE v.s) \o "\n"
    ELSE IF v.k = "map"
    THEN IF DOMAIN v.m = {} THEN "{}\n"
         ELSE LET ks == SortStrings(DOMAIN v.m)
                  item(key) ==
                      LET c == v.m[key]
                      IN  Spaces(ind) \o key \o ":" \o
                          (IF c.k = "map" /\ DOMAIN c.m # {} THEN "\n" \o YamlBlock(c, ind + 2)
                           ELSE IF c.k = "array" /\ Len(c.a) > 0 THEN "\n" \o YamlBlock(c, ind)
                           ELSE " " \o YamlBlock(c, 0))
              IN  Join([i \in 1..Len(ks) |-> item(ks[i])], "")
    ELSE IF Len(v.a) = 0 THEN "[]\n"
         ELSE LET item(c) ==
                      Spaces(ind) \o "- " \o
                      (IF c.k = "map" /\ DOMAIN c.m # {} THEN TrimLeft(YamlBlock(c, ind + 2), {" "})
                       ELSE YamlBlock(c, 0))
              IN  Join([i \in 1..Len(v.a) |-> item(v.a[i])], "")

YamlMarshal(v) == YamlBlock(v, 0)

(***************************************************************************)
(* openapi: defaults                                                       *)
(***************************************************************************)
\* a populator that stores the sample whatever the node holds
SampleOverwrites(old, text) == text

\* the default PopulateDefaults leaves on a node that held old when the sample
\* renders as text ("if child.DefaultVal == """)
SampleDefault(old, text) == IF old = "" THEN text ELSE old

\* a populator that skips the keys without a node only
SkipsUnmatchedOnly(g, cp, yval) == cp \notin DOMAIN g

\* "if !ok || yval == nil { continue }"
SkipsKey(g, cp, yval) == cp \notin DOMAIN g \/ yval.k = "null"

\* PopulateDefaults(n, y, aliases): np is n's path, aliases the root's children,
\* order the map iteration order
RECURSIVE PopulateDefaults(_, _, _, _)
RECURSIVE PopulateKeys(_, _, _, _, _)
PopulateKeys(g, np, y, ks, order) ==
    IF Len(ks) = 0 THEN g
    ELSE LET key == Head(ks)
             yval == y.m[key]
             cp == Append(np, key)
             rest(g1) == PopulateKeys(g1, np, y, Tail(ks), order)
         IN  IF SkipsKey(g, cp, yval) THEN rest(g)
             ELSE IF IsScalar(yval)
             THEN rest([g EXCEPT ![cp].DefaultVal = SampleDefault(@, yval.s)])
             ELSE IF yval.k = "map"
             THEN LET te == TrimPrefix(g[cp].TypeExpr, "*")
                      hasAlias == te # "" /\ <<te>> \in DOMAIN g
                      isObj == \/ ChildPaths(g, cp) # {}
                               \/ hasAlias /\ ChildPaths(g, <<te>>) # {}
                  IN  IF isObj
                      THEN LET g1 == [g EXCEPT ![cp].DefaultVal = SampleDefault(@, "{}")]
                           IN  rest(PopulateDefaults(g1, IF hasAlias THEN <<te>> ELSE cp, yval, order))
                      ELSE rest([g EXCEPT ![cp].DefaultVal = SampleDefault(@, YamlMarshal(yval))])
             ELSE rest([g EXCEPT ![cp].DefaultVal = SampleDefault(@, YamlMarshal(yval))])

PopulateDefaults(g, np, y, order) ==
    IF y.k = "map" THEN PopulateKeys(g, np, y, VisitOrder(DOMAIN y.m, order), order) ELSE g

(***************************************************************************)
(* openapi: undefined types                                                *)
(***************************************************************************)
\* CollectUndefined's baseOf
baseOf(typeExpr) ==
    LET e0 == TrimSpace(typeExpr)
        e1 == TrimPrefix(e0, "*")
        e2 == IF HasPrefix(e1, "[]") THEN TrimPrefix(TrimSpace(Drop(e1, 2)), "*") ELSE e1
        e3 == IF HasPrefix(e2, "map[") /\ Index(e2, "]") # -1
              THEN TrimPrefix(TrimSpace(Drop(e2, Index(e2, "]") + 1)), "*")
              ELSE e2
    IN  IF e0 = "" THEN "" ELSE e3

\* the names walk puts in defined
DefinedTypes(g) ==
    {TrimPrefix(g[p].Name, "*") : p \in
        {q \in DOMAIN g :
            LET base == TrimPrefix(g[q].Name, "*")
            IN  /\ base # ""
                /\ base \notin {aliasObject, aliasEmptyObject, "struct", "object"}
                /\ ~isPrimitive(base)
                /\ ~HasPrefix(base, "[]")
                /\ ~HasPrefix(base, "map[")
                /\ (ChildPaths(g, q) # {} \/ Len(g[q].Enums) > 0)}}

\* the names walk puts in referenced
ReferencedTypes(g) ==
    {baseOf(g[p].TypeExpr) : p \in
        {q \in DOMAIN g :
            LET b == baseOf(g[q].TypeExpr)
            IN  /\ b # ""
                /\ b \notin {aliasObject, aliasEmptyObject, "struct", "object",
                             aliasResources, aliasRequest, aliasLimit}
                /\ ~isPrimitive(b)
                /\ ~HasPrefix(b, "[]")
                /\ ~HasPrefix(b, "map[")}}

\* openapi.CollectUndefined: the sorted list of referenced and never defined names
CollectUndefined(g) == SortStrings(ReferencedTypes(g) \ DefinedTypes(g))

(***************************************************************************)
(* readme: annotation parsing                                              *)
(***************************************************************************)
\* strings.Contains(s, sub)
RECURSIVE ContainsAt(_, _, _)
ContainsAt(s, sub, i) ==
    IF i + Len(sub) - 1 > Len(s) THEN FALSE
    ELSE IF SubSeq(s, i, i + Len(sub) - 1) = sub THEN TRUE
    ELSE ContainsAt(s, sub, i + 1)

ContainsStr(s, sub) == ContainsAt(s, sub, 1)

\* the text before the first blank
CutAtSpace(t) == IF IndexSpace(t) # -1 THEN SubSeq(t, 1, IndexSpace(t)) ELSE t

resolveTypeName(typ) ==
    LET t == CutAtSpace(typ)
    IN  IF HasPrefix(t, "[]") THEN Drop(t, 2)
        ELSE IF HasPrefix(t, "map[") /\ LastIndex(t, "]") # -1 /\ LastIndex(t, "]") + 1 < Len(t)
        THEN Drop(t, LastIndex(t, "]") + 1)
        ELSE IF HasPrefix(t, "*") THEN Drop(t, 1)
        ELSE t

deriveTypeName(typ) ==
    LET t == CutAtSpace(typ)
    IN  IF HasPrefix(t, "[]") THEN Drop(t, 2)
        ELSE IF HasPrefix(t, "*") THEN Drop(t, 1)
        ELSE IF HasPrefix(t, "map[") /\ LastIndex(t, "]") # -1 /\ LastIndex(t, "]") + 1 < Len(t)
        THEN Drop(t, LastIndex(t, "]") + 1)
        ELSE t

readmeIsPrimitive(t) ==
    LET base == TrimPrefix(t, "*")
    IN  \/ isStringFormat(base)
        \/ base \in {"string", "bool", "int", "int32", "int64", "float32", "float64",
                     aliasQuantity, aliasDuration, aliasTime, aliasObject, aliasEmptyObject}

ParamMeta(Name, TypeOriginal, TypeName, Description) ==
    [Name |-> Name, TypeOriginal |-> TypeOriginal, TypeName |-> TypeName,
     Description |-> Description]

FieldMeta(ParentTypeName, Name, Type, Description) ==
    [ParentTypeName |-> ParentTypeName, Name |-> Name, Type |-> Type,
     Description |-> Description]

Section(Name, Parameters) == [Name |-> Name, Parameters |-> Parameters]

NoFields == [x \in {} |-> <<>>]
NoBases == [x \in {} |-> ""]

\* parseMetadataComments' loop state; current is the index of the open section (0: none)
MetaState ==
    [sections |-> <<>>, current |-> 0, allParams |-> <<>>, currentTypeDef |-> "",
     typeFields |-> NoFields, knownTypes |-> {}, enumBaseTypes |-> NoBases]

\* addField: the first declaration of (parent, name) is kept, a later one is a duplicate
addField(tf, parent, name, typ, desc) ==
    IF parent = "" \/ name = "" THEN tf
    ELSE IF parent \in DOMAIN tf /\ \E i \in 1..Len(tf[parent]) : tf[parent][i].Name = name
    THEN tf
    ELSE IF parent \in DOMAIN tf
    THEN [tf EXCEPT ![parent] = Append(@, FieldMeta(parent, name, typ, desc))]
    ELSE tf @@ (parent :> <<FieldMeta(parent, name, typ, desc)>>)

\* the parent a @field line is attached to by parseMetadataComments
FieldParent(st) == st.currentTypeDef

\* one iteration of parseMetadataComments' loop over the lines
MetaLine(st, l) ==
    IF l.tag = "section"
    THEN [st EXCEPT !.sections = Append(@, Section(l.name, <<>>)),
                    !.current = Len(st.sections) + 1,
                    !.currentTypeDef = ""]
    ELSE IF l.tag = "typedef"
    THEN [st EXCEPT !.currentTypeDef = l.name, !.knownTypes = @ \cup {l.name}]
    ELSE IF l.tag = "enum"
    THEN [st EXCEPT !.knownTypes = @ \cup {l.name},
                    !.enumBaseTypes = (l.name :> l.typ) @@ @,
                    !.currentTypeDef = ""]
    ELSE IF l.tag = "param"
    THEN LET pm == ParamMeta(Trim(l.name, {"[", "]"}), l.typ, resolveTypeName(l.typ), l.desc)
             secs == IF st.current = 0 /\ Len(st.sections) = 0
                     THEN <<Section("Parameters", <<>>)>> ELSE st.sections
             at == IF st.current # 0 THEN st.current ELSE 1
         IN  [st EXCEPT !.allParams = Append(@, pm),
                        !.sections = [secs EXCEPT ![at].Parameters = Append(@, pm)],
                        !.currentTypeDef = ""]
    ELSE IF l.tag = "field"
    THEN LET typ == IF l.def # "" THEN l.typ \o " default=" \o l.def ELSE l.typ
         IN  IF FieldParent(st) # ""
             THEN [st EXCEPT !.typeFields =
                       addField(@, FieldParent(st), Trim(l.name, {"[", "]"}), typ, l.desc)]
             ELSE st
    ELSE st

RECURSIVE MetaLoop(_, _, _)
MetaLoop(st, ls, i) ==
    IF i > Len(ls) THEN st ELSE MetaLoop(MetaLine(st, ls[i]), ls, i + 1)

\* buildAliasMap: param name -> type name, the last declaration of a name winning
RECURSIVE buildAliasMap(_)
buildAliasMap(params) ==
    IF Len(params) = 0 THEN NoBases
    ELSE LET p == params[Len(params)]
         IN  (p.Name :> p.TypeName) @@ buildAliasMap(SubSeq(params, 1, Len(params) - 1))

\* "Resolve aliased types in typeFields": the range loop over typeFields, visiting
\* in order the parents that are keys when their turn comes
RECURSIVE ResolveAliases(_, _, _)
ResolveAliases(tf, aliasMap, order) ==
    IF Len(order) = 0 THEN tf
    ELSE LET parent == Head(order)
             real == aliasMap[parent]
             moved ==
                 IF parent \in DOMAIN tf /\ parent \in DOMAIN aliasMap /\ real # parent
                 THEN IF real \notin DOMAIN tf
                      THEN tf @@ (real :> tf[parent])
                      ELSE [tf EXCEPT ![real] = @ \o tf[parent]]
                 ELSE tf
         IN  ResolveAliases(moved, aliasMap, Tail(order))

\* the package's variables: valuesMap, typeFields, knownTypesCache, enumBaseTypes
Globals(valuesMap, tf, known, bases) ==
    [valuesMap |-> valuesMap, typeFields |-> tf, knownTypesCache |-> known, enumBaseTypes |-> bases]

\* the variables of a process that has read no file
NoGlobals == Globals(YNull, NoFields, {}, NoBases)

\* a start that makes the type and enum maps anew and keeps the fields of the
\* file read before
KeepTypeFields(gl) == [gl EXCEPT !.knownTypesCache = {}, !.enumBaseTypes = NoBases]

\* parseMetadataComments' start: "typeFields = make(...)", "knownTypesCache =
\* make(...)", "enumBaseTypes = make(...)"
ResetGlobals(gl) ==
    [gl EXCEPT !.typeFields = NoFields, !.knownTypesCache = {}, !.enumBaseTypes = NoBases]

\* the loop state parseMetadataComments starts from, over the package's variables
MetaStateOver(gl) ==
    [MetaState EXCEPT !.typeFields = gl.typeFields, !.knownTypes = gl.knownTypesCache,
                      !.enumBaseTypes = gl.enumBaseTypes]

\* readme.parseMetadataComments of a readable file holding valid YAML, in a
\* process whose package variables are gl
parseMetadataCommentsOver(gl, ls, order) ==
    LET st == MetaLoop(MetaStateOver(ResetGlobals(gl)), ls, 1)
    IN  [Sections |-> st.sections,
         KnownTypes |-> st.knownTypes,
         typeFields |-> ResolveAliases(st.typeFields, buildAliasMap(st.allParams), order),
         enumBaseTypes |-> st.enumBaseTypes]

\* readme.parseMetadataComments of a readable file holding valid YAML, in a
\* process that has read no file
parseMetadataComments(ls, order) == parseMetadataCommentsOver(NoGlobals, ls, order)

\* UpdateParametersSection: "params = append(params, s.Parameters...)"
RECURSIVE SectionParams(_)
SectionParams(secs) ==
    IF Len(secs) = 0 THEN <<>> ELSE Head(secs).Parameters \o SectionParams(Tail(secs))

(***************************************************************************)
(* readme: validation                                                      *)
(***************************************************************************)
\* fmt.Sprintf("%d", i) for the indexes the model reaches
IntStr(i) == SubSeq("0123456789", i + 1, i + 1)

\* allowed[f.Name] = f over the fields in order: the last field of a name
FieldNamed(fields, name) ==
    LET is == {i \in 1..Len(fields) : fields[i].Name = name}
    IN  fields[CHOOSE i \in is : \A j \in is : j <= i]

FieldNames(fields) == {fields[i].Name : i \in 1..Len(fields)}

\* validateValues' checkValue: the error text, "" for nil
RECURSIVE checkValue(_, _, _, _, _)
RECURSIVE checkEach(_, _, _, _, _, _)
\* the loop over the sorted keys of a map whose values all have type child
checkEach(tf, known, path, m, ks, child) ==
    IF Len(ks) = 0 THEN ""
    ELSE LET e == checkValue(tf, known, path \o "." \o Head(ks), m[Head(ks)], child)
         IN  IF e # "" THEN e ELSE checkEach(tf, known, path, m, Tail(ks), child)

RECURSIVE checkIndexes(_, _, _, _, _, _)
checkIndexes(tf, known, path, arr, i, child) ==
    IF i > Len(arr) THEN ""
    ELSE LET e == checkValue(tf, known, path \o "[" \o IntStr(i - 1) \o "]", arr[i], child)
         IN  IF e # "" THEN e ELSE checkIndexes(tf, known, path, arr, i + 1, child)

RECURSIVE checkFields(_, _, _, _, _, _)
checkFields(tf, known, path, m, ks, fields) ==
    IF Len(ks) = 0 THEN ""
    ELSE LET key == Head(ks)
         IN  IF key \notin FieldNames(fields)
             THEN "field '" \o path \o "." \o key \o "' is not defined in schema"
             ELSE LET e == checkValue(tf, known, path \o "." \o key, m[key],
                                      FieldNamed(fields, key).Type)
                  IN  IF e # "" THEN e ELSE checkFields(tf, known, path, m, Tail(ks), fields)

checkValue(tf, known, path, val, typ) ==
    IF HasPrefix(typ, "map[")
    THEN IF val.k = "map"
         THEN checkEach(tf, known, path, val.m, SortStrings(DOMAIN val.m), deriveTypeName(typ))
         ELSE ""
    ELSE IF HasPrefix(typ, "[]")
    THEN IF val.k = "array"
         THEN checkIndexes(tf, known, path, val.a, 1, deriveTypeName(typ))
         ELSE ""
    ELSE IF HasPrefix(typ, "*")
    THEN checkValue(tf, known, path, val, TrimPrefix(typ, "*"))
    ELSE LET base == deriveTypeName(typ)
         IN  IF readmeIsPrimitive(base) \/ ContainsStr(base, "quantity") THEN ""
             ELSE IF base \notin DOMAIN tf
             THEN IF base \in known THEN ""
                  ELSE "type '" \o base \o "' referenced at '" \o path \o "' has no schema"
             ELSE IF val.k # "map" THEN ""
             ELSE checkFields(tf, known, path, val.m, SortStrings(DOMAIN val.m), tf[base])

\* paramMap[p.Name] = p over the params in order: the last param of a name
ParamNamed(params, name) ==
    LET is == {i \in 1..Len(params) : params[i].Name = name}
    IN  params[CHOOSE i \in is : \A j \in is : j <= i]

ParamNames(params) == {params[i].Name : i \in 1..Len(params)}

RECURSIVE checkTop(_, _, _, _, _)
checkTop(params, tf, known, values, ks) ==
    IF Len(ks) = 0 THEN ""
    ELSE LET key == Head(ks)
         IN  IF key \notin ParamNames(params)
             THEN "parameter '" \o key \o "' is not defined in schema"
             ELSE LET e == checkValue(tf, known, key, values.m[key],
                                      ParamNamed(params, key).TypeOriginal)
                  IN  IF e # "" THEN e ELSE checkTop(params, tf, known, values, Tail(ks))

\* readme.validateValues: the error text, "" for nil
validateValues(params, tf, values, known) ==
    checkTop(params, tf, known, values, SortStrings(DOMAIN values.m))

(***************************************************************************)
(* openapi: generator helpers and struct emitter                           *)
(***************************************************************************)
Lower == "abcdefghijklmnopqrstuvwxyz"
Upper == "ABCDEFGHIJKLMNOPQRSTUVWXYZ"

\* unicode.ToUpper on one character
ToUpper(c) == IF Index(Lower, c) # -1 THEN SubSeq(Upper, Index(Lower, c) + 1, Index(Lower, c) + 1) ELSE c

RECURSIVE camelFrom(_, _)
camelFrom(in, need) ==
    IF Len(in) = 0 THEN ""
    ELSE LET r == SubSeq(in, 1, 1)
         IN  IF r = "_" \/ r = "-" THEN camelFrom(Drop(in, 1), TRUE)
             ELSE IF need THEN ToUpper(r) \o camelFrom(Drop(in, 1), FALSE)
             ELSE r \o camelFrom(Drop(in, 1), FALSE)

camel(in) == camelFrom(in, TRUE)

\* the renaming of a user type that would clash with the root wrappers
Renamed(c) == IF c = "Config" \/ c = "ConfigSpec" THEN "Values" \o c ELSE c

\* gen.resolve; def is g.def, the names of the nodes that have children
RECURSIVE resolve(_, _)
resolve(raw0, def) ==
    LET raw == TrimSpace(raw0)
    IN  IF raw = "" THEN "string"
        ELSE IF isStringFormat(raw) THEN "string"
        ELSE IF HasPrefix(raw, "[]")
        THEN "[]" \o resolve(TrimPrefix(TrimSpace(Drop(raw, 2)), "*"), def)
        ELSE IF HasPrefix(raw, "map[") /\ Contains(raw, "]")
        THEN "map[string]" \o resolve(TrimPrefix(TrimSpace(Drop(raw, Index(raw, "]") + 1)), "*"), def)
        ELSE IF raw = aliasQuantity THEN "resource.Quantity"
        ELSE IF raw = aliasDuration THEN "metav1.Duration"
        ELSE IF raw = aliasTime THEN "metav1.Time"
        ELSE IF raw = aliasObject THEN "k8sRuntime.RawExtension"
        ELSE IF raw \in {"resources", "request", "limit"}
        THEN IF raw \in def \/ camel(raw) \in def THEN Renamed(camel(raw))
             ELSE "k8sRuntime.RawExtension"
        ELSE IF isPrimitive(raw) \/ raw = "any" THEN raw
        ELSE IF LastIndex(raw, ".") # -1 THEN Renamed(camel(Drop(raw, LastIndex(raw, ".") + 1)))
        ELSE Renamed(camel(raw))

\* gen.goType of the node at path p
goType(g, p, def) ==
    LET raw == TrimSpace(g[p].TypeExpr)
    IN  IF raw = ""
        THEN IF ChildPaths(g, p) # {} THEN Renamed(camel(g[p].Name)) ELSE "string"
        ELSE IF HasPrefix(raw, "*") THEN "*" \o resolve(TrimPrefix(raw, "*"), def)
        ELSE IF HasPrefix(raw, "[]")
        THEN "[]" \o resolve(TrimPrefix(TrimSpace(Drop(raw, 2)), "*"), def)
        ELSE IF HasPrefix(raw, "map[") /\ Contains(raw, "]")
        THEN "map[string]" \o resolve(TrimPrefix(TrimSpace(Drop(raw, Index(raw, "]") + 1)), "*"), def)
        ELSE resolve(raw, def)

\* fmt.Sprintf("%q", v): quotes and backslashes escaped
RECURSIVE Escape(_)
Escape(v) ==
    IF Len(v) = 0 THEN ""
    ELSE LET c == SubSeq(v, 1, 1)
         IN  (IF c = "\"" \/ c = "\\" THEN "\\" \o c ELSE c) \o Escape(Drop(v, 1))

Quote(v) == "\"" \o Escape(v) \o "\""

\* quoteEnums: the list with every value replaced by its quoted form (the code
\* stores them back into the slice it was given)
quoteEnums(enums) == [i \in 1..Len(enums) |-> Quote(enums[i])]

Digits == {"0", "1", "2", "3", "4", "5", "6", "7", "8", "9"}

IsNumber(t) ==
    LET u == TrimPrefix(t, "-")
    IN  Len(u) > 0 /\ \A i \in 1..Len(u) : SubSeq(u, i, i) \in Digits

\* yaml.Unmarshal of a default literal of the forms the model draws: a quoted
\* string, true/false, null, an integer, {} or [], or a bare token (a string)
ParseLiteral(t) ==
    IF Len(t) >= 2 /\ HasPrefix(t, "\"") /\ HasSuffix(t, "\"") THEN YStr(SubSeq(t, 2, Len(t) - 1))
    ELSE IF Len(t) >= 2 /\ HasPrefix(t, "'") /\ HasSuffix(t, "'") THEN YStr(SubSeq(t, 2, Len(t) - 1))
    ELSE IF t \in {"true", "false"} THEN YBool(t)
    ELSE IF t = "null" THEN YNull
    ELSE IF IsNumber(t) THEN YInt(t)
    ELSE IF t = "{}" THEN YMap(NoKeys)
    ELSE IF t = "[]" THEN YArr(<<>>)
    ELSE YStr(t)

\* toGoLiteral
RECURSIVE toGoLiteral(_)
toGoLiteral(v) ==
    IF v.k = "map"
    THEN LET ks == SortStrings(DOMAIN v.m)
         IN  "{" \o Join([i \in 1..Len(ks) |-> Quote(ks[i]) \o ":" \o toGoLiteral(v.m[ks[i]])], ",") \o "}"
    ELSE IF v.k = "array"
    THEN "{" \o Join([i \in 1..Len(v.a) |-> toGoLiteral(v.a[i])], ",") \o "}"
    ELSE IF v.k = "string" THEN Quote(v.s)
    ELSE IF v.k = "null" THEN "<nil>"
    ELSE v.s

formatDefault(val, typ) ==
    LET t == TrimPrefix(typ, "*")
    IN  IF t = camel(aliasEmptyObject) THEN ""
        ELSE IF t = "string" \/ t = "quantity" THEN Quote(Trim(val, {"\""}))
        ELSE toGoLiteral(ParseLiteral(val))

\* an emitter that marks omitempty from the Go type alone
emitFieldByTypeOnly(g, p, def) ==
    LET c == g[p]
        typ == goType(g, p, def)
        f == TrimPrefix(TrimSpace(c.TypeExpr), "*")
    IN  [field |-> camel(c.Name),
         typ |-> typ,
         comment |-> c.Comment,
         format |-> IF isStringFormat(f) /\ ~HasPrefix(typ, "[]") /\ ~HasPrefix(typ, "map[")
                    THEN f ELSE "",
         enum |-> IF Len(c.Enums) > 0 THEN Join(quoteEnums(c.Enums), ";") ELSE "",
         default |-> IF c.DefaultVal # "" THEN formatDefault(c.DefaultVal, typ) ELSE "",
         json |-> c.Name,
         omitempty |-> HasPrefix(typ, "[]") \/ HasPrefix(typ, "map[") \/ HasPrefix(typ, "*")]

\* gen.emitField of the node at path p: the markers and the field it writes
emitField(g, p, def) ==
    LET c == g[p]
        typ == goType(g, p, def)
        f == TrimPrefix(TrimSpace(c.TypeExpr), "*")
    IN  [field |-> camel(c.Name),
         typ |-> typ,
         comment |-> c.Comment,
         format |-> IF isStringFormat(f) /\ ~HasPrefix(typ, "[]") /\ ~HasPrefix(typ, "map[")
                    THEN f ELSE "",
         enum |-> IF Len(c.Enums) > 0 THEN Join(quoteEnums(c.Enums), ";") ELSE "",
         default |-> IF c.DefaultVal # "" THEN formatDefault(c.DefaultVal, typ) ELSE "",
         json |-> c.Name,
         omitempty |-> \/ HasPrefix(typ, "[]") \/ HasPrefix(typ, "map[")
                       \/ HasPrefix(typ, "*") \/ c.OmitEmpty]

\* Generate's walk: g.def, the names (and their camel forms) of the nodes with children
DefinedNames(g) ==
    UNION {{g[p].Name, camel(g[p].Name)} : p \in {q \in DOMAIN g : g[q].Name # "" /\ ChildPaths(g, q) # {}}}

\* the fields of the struct written for the node at path p (<<>>: ConfigSpec, the
\* params alone), in sortedKeys order
StructFields(g, p, def) ==
    LET kids == {q \in ChildPaths(g, p) : p # <<>> \/ g[q].IsParam}
        ks == SortStrings({q[Len(q)] : q \in kids})
    IN  [i \in 1..Len(ks) |-> emitField(g, Append(p, ks[i]), def)]

\* writeStruct writes a struct for a node below the root unless it returns early
WritesStruct(g, p) ==
    /\ ~HasPrefix(g[p].Name, "[]") /\ ~HasPrefix(g[p].Name, "map[")
    /\ ~(ChildPaths(g, p) = {} /\ TrimSpace(g[p].TypeExpr) # "")

\* the tree after the emitter ran: quoteEnums stored the quoted values back into
\* the Enums of every node it was called with (emitField for a param of ConfigSpec
\* or a field of a written struct, then writeEnum for a root child)
EnumsAfter(g, p) ==
    LET viaField == /\ Len(g[p].Enums) > 0
                    /\ \/ Len(p) = 1 /\ g[p].IsParam
                       \/ Len(p) > 1 /\ WritesStruct(g, SubSeq(p, 1, Len(p) - 1))
        e1 == IF viaField THEN quoteEnums(g[p].Enums) ELSE g[p].Enums
    IN  IF Len(p) = 1 /\ Len(g[p].Enums) > 0 THEN quoteEnums(e1) ELSE e1

\* gen.Generate: the error (the undefined types, <<>> for none), the declarations
\* and the tree as the emitter leaves it
Generate(g, order) ==
    LET undef == CollectUndefined(g)
        def == DefinedNames(g)
        top == VisitOrder({q[1] : q \in ChildPaths(g, <<>>)}, order)
        structs == SelectSeq(top, LAMBDA n : WritesStruct(g, <<n>>))
        enums == SelectSeq(top, LAMBDA n : Len(g[<<n>>].Enums) > 0)
    IN  IF Len(undef) > 0
        THEN [err |-> undef, code |-> <<>>, tree |-> g]
        ELSE [err |-> <<>>,
              code |->
                  <<[decl |-> "struct", name |-> "ConfigSpec", fields |-> StructFields(g, <<>>, def)]>>
                  \o [i \in 1..Len(structs) |->
                        [decl |-> "struct", name |-> Renamed(camel(structs[i])),
                         fields |-> StructFields(g, <<structs[i]>>, def)]]
                  \o [i \in 1..Len(enums) |->
                        [decl |-> "enum", name |-> Renamed(camel(enums[i])),
                         base |-> IF g[<<enums[i]>>].TypeExpr = "" THEN "string"
                                  ELSE g[<<enums[i]>>].TypeExpr,
                         values |-> LET viaField == g[<<enums[i]>>].IsParam
                                        e1 == IF viaField THEN quoteEnums(g[<<enums[i]>>].Enums)
                                              ELSE g[<<enums[i]>>].Enums
                                    IN  Join(quoteEnums(e1), ";")]],
              tree |-> [p \in DOMAIN g |-> [g[p] EXCEPT !.Enums = EnumsAfter(g, p)]]]

(***************************************************************************)
(* readme: table rows                                                      *)
(***************************************************************************)
\* stands for the backquote character, which a TLA+ string cannot hold
Tick == "~"

Ticked(s) == Tick \o s \o Tick

defaultValueForType(t) ==
    IF HasPrefix(t, "*") THEN Ticked("null")
    ELSE IF HasPrefix(t, "[]") THEN Ticked("[]")
    ELSE IF HasPrefix(t, "map[") THEN Ticked("{}")
    ELSE IF t = "string" \/ t = aliasQuantity THEN Ticked("\"\"")
    ELSE IF t = "int" THEN Ticked("0")
    ELSE IF t = "bool" THEN Ticked("false")
    ELSE Ticked("{}")

\* json.Marshal of a value
RECURSIVE JsonMarshal(_)
JsonMarshal(v) ==
    IF v.k = "map"
    THEN LET ks == SortStrings(DOMAIN v.m)
         IN  "{" \o Join([i \in 1..Len(ks) |-> Quote(ks[i]) \o ":" \o JsonMarshal(v.m[ks[i]])], ",") \o "}"
    ELSE IF v.k = "array"
    THEN "[" \o Join([i \in 1..Len(v.a) |-> JsonMarshal(v.a[i])], ",") \o "]"
    ELSE IF v.k = "string" THEN Quote(v.s)
    ELSE IF v.k = "null" THEN "null"
    ELSE v.s

\* fmt.Sprintf("%v", item) of an array member
RECURSIVE GoPrint(_)
GoPrint(v) ==
    IF v.k = "map"
    THEN LET ks == SortStrings(DOMAIN v.m)
         IN  "map[" \o Join([i \in 1..Len(ks) |-> ks[i] \o ":" \o GoPrint(v.m[ks[i]])], " ") \o "]"
    ELSE IF v.k = "array" THEN "[" \o Join([i \in 1..Len(v.a) |-> GoPrint(v.a[i])], " ") \o "]"
    ELSE IF v.k = "null" THEN "<nil>"
    ELSE v.s

\* valueString(raw, exists, t); raw is YNull when the key is absent
valueString(raw, exists, t) ==
    IF ~exists \/ raw.k = "null" THEN defaultValueForType(t)
    ELSE IF raw.k = "string" THEN (IF raw.s = "" THEN Ticked("\"\"") ELSE Ticked(raw.s))
    ELSE IF raw.k \in {"bool", "int"} THEN Ticked(raw.s)
    ELSE IF raw.k = "array"
    THEN IF Len(raw.a) = 0 THEN Ticked("[]")
         ELSE Ticked("[" \o Join([i \in 1..Len(raw.a) |-> GoPrint(raw.a[i])], ", ") \o "]")
    ELSE Ticked(JsonMarshal(raw))

\* the longest prefix of t that is -?\d+(\.\d+)? ("" when there is none)
RECURSIVE DigitsPrefix(_)
DigitsPrefix(t) ==
    IF Len(t) > 0 /\ SubSeq(t, 1, 1) \in Digits THEN SubSeq(t, 1, 1) \o DigitsPrefix(Drop(t, 1)) ELSE ""

NumberPrefix(t) ==
    LET sign == IF HasPrefix(t, "-") THEN "-" ELSE ""
        int == DigitsPrefix(TrimPrefix(t, "-"))
        rest == Drop(t, Len(sign) + Len(int))
        frac == IF HasPrefix(rest, ".") THEN DigitsPrefix(Drop(rest, 1)) ELSE ""
    IN  IF int = "" THEN "" ELSE sign \o int \o (IF frac # "" THEN "." \o frac ELSE "")

\* strings.Index(s, sub): 0-based, -1 when absent
RECURSIVE IndexStrFrom(_, _, _)
IndexStrFrom(s, sub, i) ==
    IF i + Len(sub) - 1 > Len(s) THEN -1
    ELSE IF SubSeq(s, i, i + Len(sub) - 1) = sub THEN i - 1
    ELSE IndexStrFrom(s, sub, i + 1)

\* extractAnnotationDefault: reAnnoDefault on a type expression in which the word
\* default follows a blank and "=" follows it directly; its alternatives are a
\* double-quoted text, a {...} block, true, false and a number
extractAnnotationDefault(typeExpr) ==
    LET at == IndexStrFrom(typeExpr, " default=", 1)
        rest == Drop(typeExpr, at + Len(" default="))
        none == [ok |-> FALSE, val |-> ""]
    IN  IF at = -1 THEN none
        ELSE IF HasPrefix(rest, "\"")
        THEN IF Contains(Drop(rest, 1), "\"")
             THEN [ok |-> TRUE, val |-> SubSeq(rest, 2, Index(Drop(rest, 1), "\"") + 1)]
             ELSE none
        ELSE IF HasPrefix(rest, "{")
        THEN IF Contains(rest, "}")
             THEN [ok |-> TRUE, val |-> SubSeq(rest, 1, Index(rest, "}") + 1)]
             ELSE none
        ELSE IF HasPrefix(rest, "true") THEN [ok |-> TRUE, val |-> "true"]
        ELSE IF HasPrefix(rest, "false") THEN [ok |-> TRUE, val |-> "false"]
        ELSE IF NumberPrefix(rest) # "" THEN [ok |-> TRUE, val |-> NumberPrefix(rest)]
        ELSE none

renderAnnotationDefault(val) ==
    LET t == TrimSpace(val)
    IN  IF t = "{}" THEN Ticked("{}")
        ELSE IF t = "[]" THEN Ticked("[]")
        ELSE valueString(ParseLiteral(t), TRUE, "")

\* the value of values[key] and whether the key is there
Lookup(values, key) == IF key \in DOMAIN values.m THEN values.m[key] ELSE YNull

\* the annotation default of the type expression, else otherwise
AnnoOr(orig, otherwise) ==
    IF extractAnnotationDefault(orig).ok
    THEN renderAnnotationDefault(extractAnnotationDefault(orig).val)
    ELSE otherwise

\* buildParamsToRender: the Value column of a parameter's own row
ParamValue(pm, values, tf, enumBases) ==
    LET orig == pm.TypeOriginal
        baseForKind == TrimPrefix(orig, "*")
        baseType == deriveTypeName(orig)
        isArray == HasPrefix(baseForKind, "[]")
        isMap == HasPrefix(baseForKind, "map[")
        isPtr == HasPrefix(orig, "*")
        isEnum == baseType \in DOMAIN enumBases
        isArrayPrim == isArray /\ (readmeIsPrimitive(baseType) \/ isEnum)
        isPtrPrim == isPtr /\ readmeIsPrimitive(baseType)
        exists == pm.Name \in DOMAIN values.m
        raw == Lookup(values, pm.Name)
        hasFields == ~readmeIsPrimitive(baseType) /\ baseType \in DOMAIN tf /\ Len(tf[baseType]) > 0
        fromValues == IF ~exists THEN AnnoOr(orig, defaultValueForType(orig))
                      ELSE valueString(raw, exists, orig)
    IN  IF isArrayPrim THEN fromValues
        ELSE IF isArray
        THEN IF raw.k = "array" THEN (IF Len(raw.a) > 0 THEN Ticked("[...]") ELSE Ticked("[]"))
             ELSE AnnoOr(orig, Ticked("[]"))
        ELSE IF isMap
        THEN IF raw.k = "map" /\ DOMAIN raw.m = {} THEN Ticked("{}")
             ELSE IF hasFields THEN Ticked("{...}")
             ELSE AnnoOr(orig, Ticked("{}"))
        ELSE IF isPtrPrim
        THEN IF ~exists THEN AnnoOr(orig, Ticked("null")) ELSE valueString(raw, exists, orig)
        ELSE IF isPtr /\ (HasPrefix(baseForKind, "[]") \/ HasPrefix(baseForKind, "map["))
        THEN IF ~exists THEN AnnoOr(orig, Ticked("null"))
             ELSE IF HasPrefix(baseForKind, "[]")
             THEN (IF raw.k = "array" /\ Len(raw.a) > 0 THEN Ticked("[...]") ELSE Ticked("[]"))
             ELSE Ticked("{}")
        ELSE IF isPtr /\ ~isPtrPrim THEN AnnoOr(orig, Ticked("null"))
        ELSE IF isEnum THEN fromValues
        ELSE IF hasFields THEN AnnoOr(orig, Ticked("{}"))
        ELSE fromValues

(***************************************************************************)
(* The run: main drives the scanner, the builder, the populator and the    *)
(* renderers in order, writing each requested output as it goes.           *)
(***************************************************************************)
NoFiles == [x \in {} |-> <<>>]

NoMeta == [Sections |-> <<>>, KnownTypes |-> {}, typeFields |-> NoFields, enumBaseTypes |-> NoBases]

Flags(outGo, outCRD, outSchema, outReadme) ==
    [outGo |-> outGo, outCRD |-> outCRD, outSchema |-> outSchema, outReadme |-> outReadme]

\* Write(files, name, content): os.WriteFile creates the file or replaces its content
WriteFile(fs, name, content) == (name :> content) @@ fs

\* the part of the state a run starts from, whatever its input
Start ==
    /\ pc = "start"
    /\ rows = <<>>
    /\ tree = EmptyTree
    /\ built = EmptyTree
    /\ genErr = <<>>
    /\ meta = NoMeta
    /\ err = ""
    /\ files = NoFiles
    /\ rows2 = <<>>
    /\ tree2 = EmptyTree
    /\ globals = NoGlobals

\* rows, err := openapi.Parse(inValues)
DoParse ==
    /\ pc = "start"
    /\ rows' = Parse(lines)
    /\ pc' = "parsed"
    /\ UNCHANGED <<lines, lines2, vals, flags, env, tree, built, genErr, meta, err, files, rows2, tree2, globals>>

\* tree := openapi.Build(rows)
DoBuild ==
    /\ pc = "parsed"
    /\ tree' = Build(rows)
    /\ built' = Build(rows)
    /\ pc' = "built"
    /\ UNCHANGED <<lines, lines2, vals, flags, env, rows, genErr, meta, err, files, rows2, tree2, globals>>

\* openapi.PopulateDefaults(tree, yamlRoot, tree.Child)
DoPopulateDefaults ==
    /\ pc = "built"
    /\ tree' = PopulateDefaults(tree, <<>>, vals, env.order)
    /\ pc' = "populated"
    /\ UNCHANGED <<lines, lines2, vals, flags, env, rows, built, genErr, meta, err, files, rows2, tree2, globals>>

\* "Generate Go files only if required": WriteGeneratedGoAndStub writes the
\* generated file of the temporary project, empty when Generate failed, and main
\* prints the error and goes on
DoWriteGeneratedGoAndStub ==
    /\ pc = "populated"
    /\ IF flags.outGo \/ flags.outCRD \/ flags.outSchema
       THEN LET gen == Generate(tree, env.order)
            IN  /\ genErr' = gen.err
                /\ tree' = gen.tree
                /\ files' = WriteFile(files, "tmp/values_generated.go", gen.code)
       ELSE UNCHANGED <<genErr, tree, files>>
    /\ pc' = "generated"
    /\ UNCHANGED <<lines, lines2, vals, flags, env, rows, built, meta, err, rows2, tree2, globals>>

\* "if outGo != """: the generated file is copied to the requested path
DoWriteGo ==
    /\ pc = "generated"
    /\ IF flags.outGo
       THEN files' = WriteFile(files, "go", files["tmp/values_generated.go"])
       ELSE UNCHANGED files
    /\ pc' = "gowritten"
    /\ UNCHANGED <<lines, lines2, vals, flags, env, rows, tree, built, genErr, meta, err, rows2, tree2, globals>>

\* the schema compiler on the temporary project: it fails on the empty file a failed
\* Generate left, and may fail on declarations that do not compile (env.cgFails)
CGFails == genErr # <<>> \/ env.cgFails

\* the properties the schema compiler derives from the ConfigSpec fields
SchemaOf(code) ==
    LET fs == code[1].fields
    IN  [n \in {fs[i].json : i \in 1..Len(fs)} |->
            LET f == fs[CHOOSE i \in 1..Len(fs) : fs[i].json = n]
            IN  [typ |-> f.typ, default |-> f.default, format |-> f.format]]

\* "if outCRD != "" || outSchema != """: openapi.CG, exit 1 on its error
DoCG ==
    /\ pc = "gowritten"
    /\ IF (flags.outCRD \/ flags.outSchema) /\ CGFails
       THEN /\ err' = "controller-gen"
            /\ pc' = "exit"
       ELSE /\ err' = err
            /\ pc' = "cg"
    /\ UNCHANGED <<lines, lines2, vals, flags, env, rows, tree, built, genErr, meta, files, rows2, tree2, globals>>

\* "if outCRD != """
DoWriteCRD ==
    /\ pc = "cg"
    /\ IF flags.outCRD
       THEN files' = WriteFile(files, "crd", SchemaOf(files["tmp/values_generated.go"]))
       ELSE UNCHANGED files
    /\ pc' = "crdwritten"
    /\ UNCHANGED <<lines, lines2, vals, flags, env, rows, tree, built, genErr, meta, err, rows2, tree2, globals>>

\* "if outSchema != """: openapi.WriteValuesSchema
DoWriteSchema ==
    /\ pc = "crdwritten"
    /\ IF flags.outSchema
       THEN files' = WriteFile(files, "schema", SchemaOf(files["tmp/values_generated.go"]))
       ELSE UNCHANGED files
    /\ pc' = "schemawritten"
    /\ UNCHANGED <<lines, lines2, vals, flags, env, rows, tree, built, genErr, meta, err, rows2, tree2, globals>>

\* A line of the README: a line of text, or a line of a rendered table (the
\* header, the separator, or the row of one parameter; all three start with "|")
TextLine(s) == [kind |-> "text", s |-> s]
TableHeader == [kind |-> "header"]
TableSeparator == [kind |-> "separator"]
RowLine(r) == [kind |-> "row", row |-> r]

\* the number of "#" a string starts with
RECURSIVE Hashes(_)
Hashes(s) == IF HasPrefix(s, "#") THEN 1 + Hashes(Drop(s, 1)) ELSE 0

\* the regular expression ^(##+) Parameters: the level matched, 0 for no match
ParametersLevel(l) ==
    IF l.kind = "text" /\ Hashes(l.s) >= 2 /\ HasPrefix(Drop(l.s, Hashes(l.s)), " Parameters")
    THEN Hashes(l.s) ELSE 0

\* the regular expression "^" + level + "[^#]"
sameLevel(l, level) ==
    /\ l.kind = "text"
    /\ Hashes(l.s) = level
    /\ Len(l.s) > level

\* the first line from i on that holds the Parameters heading, 0 for none
RECURSIVE HeadingAt(_, _)
HeadingAt(ls, i) ==
    IF i > Len(ls) THEN 0
    ELSE IF ParametersLevel(ls[i]) # 0 THEN i
    ELSE HeadingAt(ls, i + 1)

\* the first line from i on at the heading's level, Len(ls) + 1 for none
RECURSIVE BlockEnd(_, _, _)
BlockEnd(ls, level, i) ==
    IF i > Len(ls) THEN Len(ls) + 1
    ELSE IF sameLevel(ls[i], level) THEN i
    ELSE BlockEnd(ls, level, i + 1)

\* strings.ReplaceAll(s, old, new)
RECURSIVE ReplaceAll(_, _, _)
ReplaceAll(s, old, new) ==
    IF Len(s) < Len(old) THEN s
    ELSE IF SubSeq(s, 1, Len(old)) = old THEN new \o ReplaceAll(Drop(s, Len(old)), old, new)
    ELSE SubSeq(s, 1, 1) \o ReplaceAll(Drop(s, 1), old, new)

\* normalizeType: the Type column of a row
RECURSIVE normalizeType(_, _)
normalizeType(typ, enumBases) ==
    LET t == CutAtSpace(typ)
        base == TrimPrefix(t, "*")
        elem == deriveTypeName(t)
    IN  IF t = aliasEmptyObject THEN "object"
        ELSE IF t = "*" \o aliasEmptyObject THEN "*object"
        ELSE IF HasPrefix(t, "*")
        THEN IF HasPrefix(base, "[]") \/ HasPrefix(base, "map[") THEN normalizeType(base, enumBases)
             ELSE IF base \in DOMAIN enumBases THEN "*" \o enumBases[base]
             ELSE IF ~readmeIsPrimitive(base) THEN "*object"
             ELSE "*" \o base
        ELSE IF readmeIsPrimitive(elem)
        THEN IF elem = aliasEmptyObject THEN ReplaceAll(t, aliasEmptyObject, "object") ELSE t
        ELSE IF HasPrefix(t, "[]")
        THEN IF elem \in DOMAIN enumBases THEN "[]" \o enumBases[elem] ELSE "[]object"
        ELSE IF HasPrefix(t, "map[") THEN "map[string]object"
        ELSE IF t \in DOMAIN enumBases THEN enumBases[t]
        ELSE "object"

\* the nested calls a goroutine's stack holds: the runtime ends the process with
\* "fatal error: stack overflow" at the call that would exceed it
StackLimit == 8

\* ensureSynthFromDefault: one row for each key of an annotation default that is a map
ensureSynthFromDefault(parentPath, ft, enumBases) ==
    LET def == extractAnnotationDefault(ft)
        parsed == ParseLiteral(def.val)
    IN  IF def.ok /\ parsed.k = "map"
        THEN LET keys == SortStrings(DOMAIN parsed.m)
             IN  [i \in 1..Len(keys) |->
                    LET val == parsed.m[keys[i]]
                        typ == IF val.k \in {"string", "bool", "int"} THEN val.k ELSE "object"
                    IN  [kind |-> "row",
                         row |-> [Path |-> parentPath \o "." \o keys[i], Description |-> "",
                                  Type |-> normalizeType(typ, enumBases),
                                  Value |-> valueString(val, TRUE, typ)]]]
        ELSE <<>>

\* traverseByType from the i-th field of typeName on; stack is the number of nested
\* calls the goroutine's stack still holds, and a call made when none is left ends
\* the traversal
RECURSIVE traverseByType(_, _, _, _, _, _, _)
traverseByType(path, raw, typeName, tf, enumBases, stack, i) ==
    LET fields == IF typeName \in DOMAIN tf THEN tf[typeName] ELSE <<>>
        m == IF raw.k = "map" THEN raw.m ELSE NoKeys
        types == [j \in 1..Len(fields) |-> normalizeType(fields[j].Type, enumBases)]
    IN  IF stack = 0 THEN <<[kind |-> "overflow"]>>
        ELSE IF i > Len(fields) THEN <<>>
        ELSE LET fm == fields[i]
                 rowSeen == \E j \in 1..(i - 1) : fields[j].Name = fm.Name /\ types[j] = types[i]
                 okVal == fm.Name \in DOMAIN m
                 val == IF okVal THEN m[fm.Name] ELSE YNull
                 hasPtr == HasPrefix(fm.Type, "*")
                 ft == TrimPrefix(fm.Type, "*")
                 baseType == deriveTypeName(ft)
                 isArray == HasPrefix(ft, "[]")
                 isMap == HasPrefix(ft, "map[")
                 isEnum == baseType \in DOMAIN enumBases
                 primitive == readmeIsPrimitive(baseType)
                 isArrayOfPrimitives == isArray /\ (primitive \/ isEnum)
                 isDirectPrimitive == primitive \/ ContainsStr(baseType, "quantity")
                 \* the cases of the switch that print the value the document holds
                 printsValue == IF isArray THEN isArrayOfPrimitives
                                ELSE ~isMap /\ (isEnum \/ isDirectPrimitive)
                 \* the value of a field of no key and no annotation default
                 absent ==
                     IF isArray THEN (IF hasPtr THEN Ticked("null") ELSE Ticked("[]"))
                     ELSE IF isMap THEN (IF hasPtr THEN Ticked("null") ELSE Ticked("{}"))
                     ELSE IF isEnum /\ hasPtr THEN Ticked("null")
                     ELSE IF isEnum \/ isDirectPrimitive THEN defaultValueForType(fm.Type)
                     ELSE IF hasPtr THEN Ticked("null") ELSE Ticked("{}")
                 value ==
                     IF okVal /\ printsValue
                     THEN valueString(val, okVal, IF isArray THEN ft ELSE fm.Type)
                     ELSE IF okVal /\ isArray
                     THEN (IF val.k = "array" /\ Len(val.a) > 0 THEN Ticked("[...]") ELSE Ticked("[]"))
                     ELSE IF okVal /\ isMap THEN Ticked("{}")
                     ELSE AnnoOr(fm.Type, absent)
                 here == path \o "." \o fm.Name
                 wrap == IF isArray THEN "[i]" ELSE IF isMap THEN "[name]" ELSE ""
                 below ==
                     IF baseType \in DOMAIN tf
                     THEN traverseByType(here \o wrap,
                                         IF wrap = "" /\ val.k = "map" THEN val ELSE YMap(NoKeys),
                                         baseType, tf, enumBases, stack - 1, 1)
                     ELSE IF isArray THEN ensureSynthFromDefault(here \o "[i]", fm.Type, enumBases)
                     ELSE <<>>
                 row == RowLine([Path |-> here, Description |-> fm.Description,
                                 Type |-> types[i], Value |-> value])
             IN  (IF fm.Name = "" \/ rowSeen THEN <<>> ELSE <<row>> \o below)
                 \o traverseByType(path, raw, typeName, tf, enumBases, stack, i + 1)

\* traverseParam: the rows below a parameter's own row
traverseParam(pm, rawVal, tf, enumBases) ==
    LET t == TrimPrefix(pm.TypeOriginal, "*")
        isArray == HasPrefix(t, "[]")
        isMap == HasPrefix(t, "map[")
        elt == deriveTypeName(IF isArray \/ isMap THEN t ELSE pm.TypeOriginal)
        wrap == IF isArray THEN "[i]" ELSE IF isMap THEN "[name]" ELSE ""
    IN  IF isArray /\ readmeIsPrimitive(elt) THEN <<>>
        ELSE traverseByType(pm.Name \o wrap, IF wrap = "" THEN rawVal ELSE YMap(NoKeys), elt,
                            tf, enumBases, StackLimit, 1)

\* buildParamsToRender: the row of each parameter of the section, each followed
\* by the rows of traverseParam
RECURSIVE buildParamsToRender(_, _, _)
buildParamsToRender(params, m, values) ==
    IF Len(params) = 0 THEN <<>>
    ELSE LET pm == Head(params)
         IN  <<RowLine([Path |-> pm.Name, Description |-> pm.Description,
                        Type |-> normalizeType(pm.TypeOriginal, m.enumBaseTypes),
                        Value |-> ParamValue(pm, values, m.typeFields, m.enumBaseTypes)])>>
             \o traverseParam(pm, Lookup(values, pm.Name), m.typeFields, m.enumBaseTypes)
             \o buildParamsToRender(Tail(params), m, values)

\* renderSection (the heading, then markdownTable over buildParamsToRender) and the
\* "\n" written after it, split into lines
RECURSIVE SectionsLines(_, _, _)
SectionsLines(secs, m, values) ==
    IF Len(secs) = 0 THEN <<>>
    ELSE <<TextLine(""), TextLine("### " \o Head(secs).Name), TextLine("")>>
         \o <<TableHeader, TableSeparator>>
         \o buildParamsToRender(Head(secs).Parameters, m, values) \o <<TextLine("")>>
         \o SectionsLines(Tail(secs), m, values)

\* strings.Split(newContent, "\n")
NewContent(m, values) == SectionsLines(m.Sections, m, values) \o <<TextLine("")>>

\* the README UpdateParametersSection writes over a README that holds the heading
SpliceReadme(ls, content) ==
    LET h == HeadingAt(ls, 1)
        e == BlockEnd(ls, ParametersLevel(ls[h]), h + 1)
    IN  SubSeq(ls, 1, h) \o content \o SubSeq(ls, e, Len(ls))

\* the error readme.UpdateParametersSection returns, "" for nil
UpdateError(m, values, heading) ==
    LET e == validateValues(SectionParams(m.Sections), m.typeFields, values, m.KnownTypes)
    IN  IF e # "" THEN "validate values: " \o e
        ELSE IF ~heading THEN "Parameters section not found"
        ELSE ""

\* the values are valid and the rendering that follows the validation runs out of
\* stack: the process dies before the README is read
Crashes(m, values, content) ==
    /\ validateValues(SectionParams(m.Sections), m.typeFields, values, m.KnownTypes) = ""
    /\ \E i \in 1..Len(content) : content[i].kind = "overflow"

\* "if outReadme != """: readme.UpdateParametersSection, exit 1 on its error
DoUpdateReadme ==
    /\ pc = "schemawritten"
    /\ IF flags.outReadme
       THEN LET m == parseMetadataCommentsOver(globals, lines, env.order)
                gl == Globals(vals, m.typeFields, m.KnownTypes, m.enumBaseTypes)
                e == UpdateError(m, vals, HeadingAt(env.readme, 1) # 0)
            IN  \E content \in {NewContent(m, gl.valuesMap)} :
                \E crash \in {Crashes(m, gl.valuesMap, content)} :
                    /\ meta' = m
                    /\ globals' = gl
                    /\ err' = IF crash THEN "fatal error: stack overflow" ELSE e
                    /\ pc' = IF crash THEN "crash" ELSE IF e # "" THEN "exit" ELSE "done"
                    /\ files' = IF crash \/ e # "" THEN files
                                ELSE WriteFile(files, "readme", SpliceReadme(env.readme, content))
       ELSE /\ pc' = "done"
            /\ UNCHANGED <<meta, err, files, globals>>
    /\ UNCHANGED <<lines, lines2, vals, flags, env, rows, tree, built, genErr, rows2, tree2>>

Next ==
    \/ DoParse
    \/ DoBuild
    \/ DoPopulateDefaults
    \/ DoWriteGeneratedGoAndStub
    \/ DoWriteGo
    \/ DoCG
    \/ DoWriteCRD
    \/ DoWriteSchema
    \/ DoUpdateReadme

(***************************************************************************)
(* internal/openapi: the path-addressed annotations "@param a.b {type}"    *)
(* and "@field P.x {type}", with the alias of a field's parent             *)
(***************************************************************************)
\* strings.FieldsFunc(m[2], r == '/' || r == '.')
RECURSIVE SplitPath(_)
SplitPath(s) ==
    LET t == TrimLeft(s, {"/", "."})
        i == Index(t, ".")
        j == Index(t, "/")
        cut == IF i = -1 THEN j ELSE IF j = -1 THEN i ELSE IF i < j THEN i ELSE j
    IN  IF Len(t) = 0 THEN <<>>
        ELSE IF cut = -1 THEN <<t>>
        ELSE <<SubSeq(t, 1, cut)>> \o SplitPath(Drop(t, cut + 1))

\* the row Parse appends for line i, <<>> when the line is no annotation; a line
\* that is a YAML "key: value" has tag "other", the key as name and the value as def
LegacyRow(ls, i) ==
    LET l == ls[i]
        path == SplitPath(l.name)
        next == IF i + 1 <= Len(ls) THEN ls[i + 1] ELSE Line("other", "", "", "", "")
        def == IF l.def = "" /\ next.tag = "other" /\ next.def # ""
                  /\ Len(path) > 0 /\ next.name = path[Len(path)]
               THEN Trim(next.def, {"\"", "'"})
               ELSE l.def
    IN  IF l.tag \in {"param", "field"} /\ l.typ # ""
        THEN <<Raw(IF l.tag = "field" THEN kField ELSE kParam, path, l.typ, <<>>, def, l.desc, FALSE)>>
        ELSE <<>>

RECURSIVE LegacyParseFrom(_, _)
LegacyParseFrom(ls, i) ==
    IF i > Len(ls) THEN <<>> ELSE LegacyRow(ls, i) \o LegacyParseFrom(ls, i + 1)

LegacyParse(ls) == LegacyParseFrom(ls, 1)

\* "allow @field <param>.<field> even when <param> is declared with alias type"
AliasSegments(g, r) ==
    IF r.K = kField /\ Len(r.Path) > 1 /\ <<r.Path[1]>> \in DOMAIN g
    THEN LET alias == TrimPrefix(TrimSpace(g[<<r.Path[1]>>].TypeExpr), "*")
         IN  IF alias # "" /\ ~isPrim(alias) THEN [r.Path EXCEPT ![1] = alias] ELSE r.Path
    ELSE r.Path

\* cur = ensure(cur, seg) along the segments
RECURSIVE EnsurePath(_, _, _)
EnsurePath(g, segments, i) ==
    IF i > Len(segments) THEN g
    ELSE EnsurePath(ensure(g, SubSeq(segments, 1, i)), segments, i + 1)

\* one iteration of the loop of Build over the rows
LegacyBuildRow(g, r) ==
    LET segments == AliasSegments(g, r)
        g1 == EnsurePath(g, segments, 1)
        g2 == IF Len(segments) = 0 THEN g1
              ELSE [g1 EXCEPT ![segments].IsParam = IF r.K = kParam THEN TRUE ELSE @,
                              ![segments].TypeExpr = r.TypeExpr,
                              ![segments].Comment = r.Description,
                              ![segments].Enums = r.Enums,
                              ![segments].DefaultVal = BuildDefault(@, r)]
    IN  addImplicit(g2, ImplicitBase(r.TypeExpr))

RECURSIVE LegacyBuildLoop(_, _, _)
LegacyBuildLoop(g, rs, i) ==
    IF i > Len(rs) THEN g ELSE LegacyBuildLoop(LegacyBuildRow(g, rs[i]), rs, i + 1)

LegacyBuild(rs) == LegacyBuildLoop(EmptyTree, rs, 1)

\* Parse of the two files of a comparison
DoLegacyParse ==
    /\ pc = "start"
    /\ rows' = LegacyParse(lines)
    /\ rows2' = LegacyParse(lines2)
    /\ pc' = "parsed"
    /\ UNCHANGED <<lines, lines2, vals, flags, env, tree, built, genErr, meta, err, files, tree2, globals>>

\* Build of the two row sequences
DoLegacyBuild ==
    /\ pc = "parsed"
    /\ tree' = LegacyBuild(rows)
    /\ tree2' = LegacyBuild(rows2)
    /\ pc' = "built"
    /\ UNCHANGED <<lines, lines2, vals, flags, env, rows, rows2, built, genErr, meta, err, files, globals>>

NextLegacy ==
    \/ DoLegacyParse
    \/ DoLegacyBuild

(***************************************************************************)
(* Inputs: the values files, README states and flag combinations the       *)
(* specifications below start from                                         *)
(***************************************************************************)
\* longest sequence of annotation lines drawn from a universe of lines
MaxLines == 3

\* deepest nesting of maps and arrays in a drawn values document
MaxDepth == 3

SeqsUpTo(U, n) == UNION {[1..k -> U] : k \in 1..n}

\* the iteration orders over the names of S
Perms(S) == {f \in [1..Cardinality(S) -> S] : \A i, j \in 1..Cardinality(S) : f[i] = f[j] => i = j}

\* the environment of a run: the README (whether it holds the heading, and its
\* lines), whether the schema compiler fails, the iteration order of the maps
Env(heading, cgFails, order) ==
    [heading |-> heading, cgFails |-> cgFails, order |-> order,
     readme |-> IF heading THEN <<TextLine("## Parameters")>> ELSE <<>>]

AllFlags == {Flags(g, c, s, r) : g \in BOOLEAN, c \in BOOLEAN, s \in BOOLEAN, r \in BOOLEAN}

OutputFiles == {"go", "crd", "schema", "readme"}

\* whole runs: a few files, every combination of outputs, every environment
RunLines ==
    {<<Line("param", "int", "n", "5", "replicas")>>,
     <<Line("param", "Foo", "x", "", "settings")>>,
     <<Line("typedef", "struct", "Foo", "", "settings"),
       Line("field", "string", "a", "", "name"),
       Line("param", "Foo", "x", "", "settings"),
       Line("param", "int", "n", "5", "replicas")>>}

RunValues ==
    {YMap(NoKeys),
     YMap("n" :> YInt("7")),
     YMap("x" :> YMap("a" :> YStr("s"))),
     YMap("x" :> YMap("z" :> YStr("s")))}

InitRun ==
    /\ Start
    /\ lines \in RunLines
    /\ lines2 = <<>>
    /\ vals \in RunValues
    /\ flags \in AllFlags
    /\ env \in {Env(h, c, <<>>) : h \in BOOLEAN, c \in BOOLEAN}

SpecRun == InitRun /\ [][Next]_vars

\* type expressions nesting pointer, array and map wrappers around a name
NestedTypes ==
    {"Foo", "*Foo", "[]Foo", "map[string]Foo", "[]*Foo", "*[]Foo", "map[string]*Foo",
     "[][]Foo", "map[string][]Foo", "[]map[string]Foo", "map[string]map[string]Foo",
     "string", "[]string", "object", "uri", "quantity"}

\* graphs referencing a type under every nesting, the type being declared with a
\* field, as an enum, with no field, or not at all
TypeDecls ==
    {<<>>,
     <<Line("typedef", "struct", "Foo", "", "")>>,
     <<Line("typedef", "struct", "Foo", "", ""), Line("field", "string", "a", "", "")>>,
     <<Line("enum", "string", "Foo", "", ""), Line("value", "", "v", "", "")>>}

SecondParams ==
    {<<>>, <<Line("param", "Foo", "q", "", "")>>, <<Line("param", "[]Bar", "q", "", "")>>}

InitUndefined ==
    /\ Start
    /\ lines \in {d \o <<Line("param", t, "p", "", "")>> \o q :
                    d \in TypeDecls, t \in NestedTypes, q \in SecondParams}
    /\ lines2 = <<>>
    /\ vals = YMap(NoKeys)
    /\ flags \in {Flags(TRUE, FALSE, FALSE, FALSE), Flags(TRUE, TRUE, TRUE, TRUE)}
    /\ env \in {Env(TRUE, FALSE, o) : o \in Perms({"Foo", "p"})}

SpecUndefined == InitUndefined /\ [][Next]_vars

\* values documents nested to depth d over the keys "a" (declared) and "z"
RECURSIVE Docs(_)
Docs(d) ==
    IF d = 0 THEN {YStr("s")}
    ELSE LET below == Docs(d - 1)
         IN  below \cup {YMap(NoKeys)}
                   \cup {YMap(k :> v) : k \in {"a", "z"}, v \in below}
                   \cup {YArr(<<v>>) : v \in below}
                   \cup {YArr(<<YStr("s"), v>>) : v \in below}

InitValidate ==
    /\ Start
    /\ lines \in {<<Line("typedef", "struct", "Foo", "", ""),
                    Line("field", "object", "a", "", ""),
                    Line("param", t, "p", "", "")>> : t \in NestedTypes}
    /\ lines2 = <<>>
    /\ vals \in {YMap("p" :> v) : v \in Docs(MaxDepth)} \cup {YMap("z" :> YStr("s")), YMap(NoKeys)}
    /\ flags = Flags(FALSE, FALSE, FALSE, TRUE)
    /\ env = Env(TRUE, FALSE, <<>>)

SpecValidate == InitValidate /\ [][Next]_vars

\* files mixing the annotations that open and close a typedef
ScanLines ==
    {Line("typedef", "struct", "A", "", ""),
     Line("typedef", "struct", "B", "", ""),
     Line("field", "string", "x", "", ""),
     Line("field", "int", "y", "", ""),
     Line("param", "A", "p", "", ""),
     Line("enum", "string", "E", "", ""),
     Line("value", "", "v", "", ""),
     Line("section", "", "S", "", "")}

InitScan ==
    /\ Start
    /\ lines \in SeqsUpTo(ScanLines, MaxLines)
    /\ lines2 = <<>>
    /\ vals = YMap(NoKeys)
    /\ flags = Flags(TRUE, FALSE, FALSE, TRUE)
    /\ env = Env(TRUE, FALSE, <<>>)

SpecScan == InitScan /\ [][Next]_vars

\* files declaring a path more than once, with and without a default
GraphLines ==
    {Line("typedef", "struct", "Foo", "", "settings"),
     Line("field", "string", "a", "\"x\"", "name"),
     Line("field", "int", "a", "", "size"),
     Line("param", "int", "n", "5", "replicas"),
     Line("param", "string", "n", "", "name"),
     Line("param", "Foo", "p", "", "first"),
     Line("param", "Foo", "q", "{}", "second")}

GraphValues ==
    {YMap(NoKeys),
     YMap(("n" :> YInt("7")) @@ ("p" :> YMap("a" :> YStr("s"))) @@ ("q" :> YMap("a" :> YStr("t")))),
     YMap(("n" :> YMap("a" :> YInt("1"))) @@ ("q" :> YArr(<<YInt("1")>>))),
     YMap(("Foo" :> YMap("a" :> YBool("true"))) @@ ("p" :> YNull))}

InitGraph ==
    /\ Start
    /\ lines \in SeqsUpTo(GraphLines, MaxLines)
    /\ lines2 = <<>>
    /\ vals \in GraphValues
    /\ flags = Flags(TRUE, FALSE, FALSE, FALSE)
    /\ env \in {Env(TRUE, FALSE, o) : o \in Perms({"p", "q"})}

SpecGraph == InitGraph /\ [][Next]_vars

\* files of path-addressed annotations declaring a field against a parameter
AliasLines ==
    {Line("param", "Foo", "p", "", ""),
     Line("param", "*Foo", "p", "", "pointer"),
     Line("param", "string", "q", "", ""),
     Line("field", "string", "p.x", "", ""),
     Line("field", "int", "p.y", "1", ""),
     Line("field", "string", "Foo.y", "", ""),
     Line("other", "", "x", "v", "")}

\* the same file with every field declared against the parameter p declared
\* against its type Foo
Retarget(ls) ==
    [i \in 1..Len(ls) |->
        IF ls[i].tag = "field" /\ HasPrefix(ls[i].name, "p.")
        THEN [ls[i] EXCEPT !.name = "Foo." \o Drop(ls[i].name, 2)]
        ELSE ls[i]]

InitAlias ==
    /\ Start
    /\ lines \in SeqsUpTo(AliasLines, MaxLines)
    /\ lines2 = Retarget(lines)
    /\ vals = YMap(NoKeys)
    /\ flags = Flags(TRUE, FALSE, FALSE, FALSE)
    /\ env = Env(TRUE, FALSE, <<>>)

SpecAlias == InitAlias /\ [][NextLegacy]_vars

(***************************************************************************)
(* Properties                                                              *)
(***************************************************************************)
Requested ==
    {f \in OutputFiles : \/ f = "go" /\ flags.outGo
                         \/ f = "crd" /\ flags.outCRD
                         \/ f = "schema" /\ flags.outSchema
                         \/ f = "readme" /\ flags.outReadme}

Written == DOMAIN files \cap OutputFiles

\* C1: whatever outputs are requested, the undefined-type check is found empty
\* before any renderer writes: while the graph references an undefined type no
\* output file is written and the run does not complete.
C1_UndefinedAbortsBeforeWrites ==
    CollectUndefined(tree) # <<>> => Written = {} /\ pc # "done"

\* C2: a run is all-or-nothing: when it ends, either no output file has been
\* written, or every requested output has been written from a graph that passed
\* the undefined-type check and values validation.
C2_AllOrNothing ==
    pc \in {"done", "exit"} =>
        \/ Written = {}
        \/ /\ Written = Requested
           /\ CollectUndefined(tree) = <<>>
           /\ LET m == parseMetadataComments(lines, env.order)
              IN  validateValues(SectionParams(m.Sections), m.typeFields, vals, m.KnownTypes) = ""

\* the name a type expression wraps, under any nesting of pointers, arrays and maps
RECURSIVE TypeBase(_)
TypeBase(typeExpr) ==
    LET t == TrimSpace(typeExpr)
    IN  IF HasPrefix(t, "*") THEN TypeBase(Drop(t, 1))
        ELSE IF HasPrefix(t, "[]") THEN TypeBase(Drop(t, 2))
        ELSE IF HasPrefix(t, "map[") /\ Index(t, "]") # -1 THEN TypeBase(Drop(t, Index(t, "]") + 1))
        ELSE t

\* the names some node defines: it has children or enum values
NamesDefined(g) == {g[p].Name : p \in {q \in DOMAIN g : ChildPaths(g, q) # {} \/ Len(g[q].Enums) > 0}}

\* the names referenced by a type expression and defined by no node
NamesUndefined(g) ==
    {n \in {TypeBase(g[p].TypeExpr) : p \in DOMAIN g} :
        /\ n \notin {"", "struct", aliasEmptyObject}
        /\ ~isPrimitive(n)
        /\ n \notin NamesDefined(g)}

\* C3: CollectUndefined returns exactly the names referenced under any nesting of
\* pointer, array and map wrappers that no node defines, each once.
C3_ExactlyTheUndefined ==
    pc = "generated" =>
        /\ SeqToSet(genErr) = NamesUndefined(built)
        /\ Cardinality(SeqToSet(genErr)) = Len(genErr)

\* every key of val is declared, val having type typ: arrays at every index, maps
\* at every key, pointers transparently, a named type by its declared fields
RECURSIVE KeysDeclared(_, _, _)
KeysDeclared(tf, val, typ) ==
    LET t == CutAtSpace(typ)
    IN  IF HasPrefix(t, "*") THEN KeysDeclared(tf, val, Drop(t, 1))
        ELSE IF HasPrefix(t, "[]")
        THEN val.k = "array" => \A i \in 1..Len(val.a) : KeysDeclared(tf, val.a[i], Drop(t, 2))
        ELSE IF HasPrefix(t, "map[")
        THEN val.k = "map" =>
                \A key \in DOMAIN val.m : KeysDeclared(tf, val.m[key], Drop(t, Index(t, "]") + 1))
        ELSE IF t \in DOMAIN tf
        THEN val.k = "map" =>
                \A key \in DOMAIN val.m :
                    /\ key \in FieldNames(tf[t])
                    /\ KeysDeclared(tf, val.m[key], FieldNamed(tf[t], key).Type)
        ELSE TRUE

\* val has the shape typ announces: a sequence for an array, a map for a map or a
\* named type, whatever the wrappers
RECURSIVE WellShaped(_, _, _)
WellShaped(tf, val, typ) ==
    LET t == CutAtSpace(typ)
    IN  IF HasPrefix(t, "*") THEN WellShaped(tf, val, Drop(t, 1))
        ELSE IF HasPrefix(t, "[]")
        THEN val.k = "array" /\ \A i \in 1..Len(val.a) : WellShaped(tf, val.a[i], Drop(t, 2))
        ELSE IF HasPrefix(t, "map[")
        THEN val.k = "map" /\
                \A key \in DOMAIN val.m : WellShaped(tf, val.m[key], Drop(t, Index(t, "]") + 1))
        ELSE IF t \in DOMAIN tf
        THEN val.k = "map" /\
                \A key \in DOMAIN val.m \cap FieldNames(tf[t]) :
                    WellShaped(tf, val.m[key], FieldNamed(tf[t], key).Type)
        ELSE TRUE

\* every value of the document has the shape its parameter's type announces
DocumentShaped ==
    LET params == SectionParams(meta.Sections)
    IN  \A key \in DOMAIN vals.m \cap ParamNames(params) :
            WellShaped(meta.typeFields, vals.m[key], ParamNamed(params, key).TypeOriginal)

\* every key of the values document is declared by the annotations
DocumentDeclared ==
    LET params == SectionParams(meta.Sections)
    IN  \A key \in DOMAIN vals.m :
            /\ key \in ParamNames(params)
            /\ KeysDeclared(meta.typeFields, vals.m[key], ParamNamed(params, key).TypeOriginal)

\* C4: validation fails for every values document holding an undeclared key, at
\* the top level or at any depth inside a value of a named type.
C4_UndeclaredKeyFails ==
    (pc \in {"done", "exit"} /\ flags.outReadme /\ ~DocumentDeclared)
        => HasPrefix(err, "validate values: ")

\* C5: validation succeeds for every values document whose present keys are all
\* declared, the named types reached having declared fields (here for the
\* documents whose values have the shape their types announce).
C5_DeclaredKeysPass ==
    (pc \in {"done", "exit"} /\ flags.outReadme /\ DocumentDeclared /\ DocumentShaped
        /\ "Foo" \in DOMAIN meta.typeFields)
        => ~HasPrefix(err, "validate values: ")

\* the typedef declared by the closest @typedef line at or before line j with no
\* @param or @enum line after it ("": none)
RECURSIVE OpenTypedef(_, _)
OpenTypedef(ls, j) ==
    IF j < 1 THEN ""
    ELSE IF ls[j].tag = "typedef" THEN ls[j].name
    ELSE IF ls[j].tag \in {"param", "enum"} THEN ""
    ELSE OpenTypedef(ls, j - 1)

\* the (typedef, field) pairs of the @field lines from line i on that have an open typedef
RECURSIVE AttachedFrom(_, _)
AttachedFrom(ls, i) ==
    IF i > Len(ls) THEN <<>>
    ELSE (IF ls[i].tag = "field" /\ OpenTypedef(ls, i - 1) # ""
          THEN <<(<<OpenTypedef(ls, i - 1), ls[i].name>>)>> ELSE <<>>)
         \o AttachedFrom(ls, i + 1)

FieldRows == SelectSeq(rows, LAMBDA r : r.K = kField)

\* C6: a @field line is attached to typedef T if and only if T is declared by the
\* closest preceding @typedef line with no @param or @enum line in between.
C6_FieldAttachedToOpenTypedef ==
    pc # "start" => [i \in 1..Len(FieldRows) |-> FieldRows[i].Path] = AttachedFrom(lines, 1)

\* C7: with a parameter p declared of type Foo, the fields declared against p
\* and the same fields declared against Foo give the same graph, wherever the
\* field lines stand.
C7_AliasSameGraph ==
    (pc = "built" /\ \E i \in 1..Len(lines) : lines[i].tag = "param" /\ lines[i].name = "p")
        => tree = tree2

\* C8: once PopulateDefaults ran, every node whose default was set by an
\* annotation still holds the annotation's value.
C8_AnnotationDefaultKept ==
    pc \notin {"start", "parsed", "built"} =>
        \A p \in DOMAIN built : built[p].DefaultVal # "" => tree[p].DefaultVal = built[p].DefaultVal

\* C8 witness: the populator met the sample "7" for n, declared with "=5"
C8_SampleMetAnnotation ==
    /\ pc = "populated"
    /\ <<"n">> \in DOMAIN built /\ built[<<"n">>].DefaultVal = "5"
    /\ "n" \in DOMAIN vals.m /\ vals.m["n"] = YInt("7")
    /\ tree[<<"n">>].DefaultVal = "5"

\* the README row of parameter name
ReadmeRow(name) ==
    LET rs == files["readme"]
    IN  rs[CHOOSE i \in 1..Len(rs) : rs[i].kind = "row" /\ rs[i].row.Path = name].row

\* the field the Go declarations hold for parameter name
GoField(name) ==
    LET fs == files["go"][1].fields IN fs[CHOOSE i \in 1..Len(fs) : fs[i].json = name]

\* C9: a parameter declared with a scalar annotation default shows that literal in
\* the Go default marker, the schema default and the README value.
C9_SameDefaultEverywhere ==
    (pc = "done" /\ {"go", "schema", "readme"} \subseteq DOMAIN files) =>
        \A i \in 1..Len(lines) :
            (lines[i].tag = "param" /\ lines[i].typ = "int" /\ lines[i].def # "") =>
                /\ GoField(lines[i].name).default = lines[i].def
                /\ files["schema"][lines[i].name].default = lines[i].def
                /\ ReadmeRow(lines[i].name).Value = Ticked(lines[i].def)

\* C10: after Build no declared node is missing, every node holds the type,
\* comment, enum values and default of the last declaration of its path, and the
\* children declared under it are present.
C10_LastDeclarationWins ==
    pc = "built" =>
        \A i \in 1..Len(rows) :
            /\ rows[i].Path \in DOMAIN built
            /\ (\A j \in (i + 1)..Len(rows) : rows[j].Path # rows[i].Path) =>
                   /\ built[rows[i].Path].TypeExpr = rows[i].TypeExpr
                   /\ built[rows[i].Path].Comment = rows[i].Description
                   /\ built[rows[i].Path].Enums = rows[i].Enums
                   /\ built[rows[i].Path].DefaultVal = rows[i].DefaultVal

\* C11: after Build every named type a type expression refers to, bare or under
\* any pointer, array or map wrapper, has a node under the root.
C11_ReferencedTypeHasNode ==
    pc = "built" =>
        \A p \in DOMAIN built :
            LET b == TypeBase(built[p].TypeExpr)
            IN  (b \notin {"", "struct", aliasEmptyObject} /\ ~isPrimitive(b)) => <<b>> \in DOMAIN built

\* the nodes a key path of the document y leads to from the node at np, every key
\* on the path being present with a value that is not null
RECURSIVE MatchedNodes(_, _, _)
MatchedNodes(g, np, y) ==
    IF y.k # "map" THEN {}
    ELSE UNION {LET cp == Append(np, key)
                    te == TrimPrefix(g[cp].TypeExpr, "*")
                    below == IF <<te>> \in DOMAIN g THEN <<te>> ELSE cp
                IN  {cp} \cup MatchedNodes(g, below, y.m[key]) :
                key \in {k \in DOMAIN y.m : Append(np, k) \in DOMAIN g /\ y.m[k].k # "null"}}

\* C12: PopulateDefaults creates and removes no node, changes no field but the
\* default, and changes the default only of a node a present, non-null key leads to.
C12_PopulateTouchesMatchedDefaultsOnly ==
    pc = "populated" =>
        /\ DOMAIN tree = DOMAIN built
        /\ \A p \in DOMAIN built :
            /\ [tree[p] EXCEPT !.DefaultVal = built[p].DefaultVal] = built[p]
            /\ tree[p].DefaultVal # built[p].DefaultVal => p \in MatchedNodes(built, <<>>, vals)

\* C12 witness: the document holds a null for the node p, a sample for the field a
\* of Foo and keys without a node; the populator stored the sample and left p alone
C12_NullKeyAndSampleMet ==
    /\ pc = "populated"
    /\ <<"p">> \in DOMAIN built /\ "p" \in DOMAIN vals.m /\ vals.m["p"] = YNull
    /\ tree[<<"p">>] = built[<<"p">>]
    /\ <<"Foo", "a">> \in DOMAIN built /\ built[<<"Foo", "a">>].DefaultVal = ""
    /\ tree[<<"Foo", "a">>].DefaultVal = "true"

\* files referring to one of the object-like aliases, declared with a field or not
ObjectLikeNames == {aliasResources, aliasRequest, aliasLimit}

InitObjectLike ==
    /\ Start
    /\ lines \in {d \o <<Line("param", t, "r", "", "")>> :
                    t \in ObjectLikeNames,
                    d \in {<<>>} \cup {<<Line("typedef", "struct", n, "", ""),
                                         Line("field", "string", "a", "", "")>> : n \in ObjectLikeNames}}
    /\ lines2 = <<>>
    /\ vals \in {YMap("r" :> v) : v \in Docs(1)} \cup {YMap(NoKeys)}
    /\ flags = Flags(TRUE, FALSE, FALSE, TRUE)
    /\ env = Env(TRUE, FALSE, <<>>)

SpecObjectLike == InitObjectLike /\ [][Next]_vars

\* the names the Go declarations declare
Declared == {files["go"][i].name : i \in 1..Len(files["go"])}

\* C13: a reference to resources, request or limit resolves to the declared type
\* of that name when one has children, its values being checked against the
\* declared fields; otherwise it is a free-form object everywhere: not undefined,
\* without a generated struct, any nested content passing validation.
C13_ObjectLikeAliases ==
    pc \in {"done", "exit"} =>
        LET t == lines[Len(lines)].typ
            declared == ChildPaths(built, <<t>>) # {}
        IN  /\ genErr = <<>>
            /\ declared => /\ GoField("r").typ = camel(t)
                           /\ camel(t) \in Declared
                           /\ (err = "") = DocumentDeclared
            /\ ~declared => /\ GoField("r").typ = "k8sRuntime.RawExtension"
                            /\ camel(t) \notin Declared
                            /\ err = ""
\* user type names whose camel form is Config or ConfigSpec
ConfigNames == {"config", "Config", "config_spec"}

ConfigWrappers == {"", "*", "[]", "map[string]", "*[]", "map[string][]"}

\* files referring to such a name under a wrapper, the name being declared as a
\* struct with a field, as an enum, or not at all
InitConfigName ==
    /\ Start
    /\ lines \in {d \o <<Line("param", w \o t, "c", "", "")>> :
                    w \in ConfigWrappers, t \in ConfigNames,
                    d \in {<<>>}
                          \cup {<<Line("typedef", "struct", n, "", ""),
                                  Line("field", "string", "a", "", "")>> : n \in ConfigNames}
                          \cup {<<Line("enum", "string", n, "", ""),
                                  Line("value", "", "v", "", "")>> : n \in ConfigNames}}
    /\ lines2 = <<>>
    /\ vals = YMap(NoKeys)
    /\ flags = Flags(TRUE, FALSE, FALSE, FALSE)
    /\ env = Env(TRUE, FALSE, <<>>)

SpecConfigName == InitConfigName /\ [][Next]_vars

\* C14: a user type whose camel form is Config or ConfigSpec is known under one
\* renamed identifier everywhere: its declaration, the field types referring to it
\* under any wrapper and the error messages naming it; the declarations hold the
\* root's ConfigSpec once and no other Config or ConfigSpec.
C14_ConfigRenamedEverywhere ==
    pc \in {"done", "exit"} =>
        \A n \in ConfigNames :
            <<n>> \in DOMAIN built =>
                /\ \A i \in 1..Len(genErr) : genErr[i] = Renamed(camel(n))
                /\ genErr = <<>> =>
                       LET code == files["go"]
                       IN  /\ \A i \in 2..Len(code) : code[i].name \notin {"Config", "ConfigSpec"}
                           /\ TypeBase(lines[Len(lines)].typ) = n =>
                                  /\ TypeBase(GoField("c").typ) = Renamed(camel(n))
                                  /\ \E i \in 2..Len(code) : code[i].name = Renamed(camel(n))
\* the file with every type written {?T} written {*T}
StarSpelling(ls) ==
    [i \in 1..Len(ls) |->
        IF HasPrefix(ls[i].typ, "?") THEN [ls[i] EXCEPT !.typ = "*" \o Drop(ls[i].typ, 1)]
        ELSE ls[i]]

OptionalTypes == {"string", "int", "Foo", "[]Foo", "object"}

\* files declaring Foo and holding one optional type, on a parameter or on a
\* field, in either spelling
InitOptional ==
    /\ Start
    /\ lines \in {<<Line("typedef", "struct", "Foo", "", ""),
                    Line("field", "string", "a", "", ""),
                    Line("param", m \o t, "p", "", "")>> : m \in {"?", "*"}, t \in OptionalTypes}
                 \cup {<<Line("typedef", "struct", "Foo", "", ""),
                         Line("field", m \o t, "a", "", ""),
                         Line("param", "Foo", "p", "", "")>> : m \in {"?", "*"}, t \in {"string", "int"}}
    /\ lines2 = <<>>
    /\ vals \in {YMap(NoKeys), YMap("p" :> YNull), YMap("p" :> YMap("a" :> YStr("s")))}
    /\ flags = Flags(TRUE, FALSE, FALSE, TRUE)
    /\ env = Env(TRUE, FALSE, <<>>)

SpecOptional == InitOptional /\ [][Next]_vars

\* C15: a file spelling a type {?T} ends as the same file spelling it {*T}: the
\* same undefined types, the same Go declarations (type and omitempty of every
\* field), the same validation outcome and the same README rows.
C15_QuestionMarkIsPointer ==
    pc \in {"done", "exit"} =>
        LET star == StarSpelling(lines)
            gen == Generate(PopulateDefaults(Build(Parse(star)), <<>>, vals, env.order), env.order)
            m == parseMetadataComments(star, env.order)
            e == UpdateError(m, vals, env.heading)
        IN  /\ genErr = gen.err
            /\ files["go"] = gen.code
            /\ err = e
            /\ e = "" => files["readme"] = SpliceReadme(env.readme, NewContent(m, vals))
\* two spellings of one type name differing in case
CaseVariants == {"Backup", "backup"}

\* files declaring the type under one spelling, declaring a second field under
\* either, and referring to it under either
InitCase ==
    /\ Start
    /\ lines \in {<<Line("typedef", "struct", n, "", ""),
                    Line("field", "string", "a", "", "")>> \o d
                  \o <<Line("param", w \o t, "b", "", "")>> :
                    n \in CaseVariants, t \in CaseVariants, w \in {"", "*", "[]"},
                    d \in {<<>>} \cup {<<Line("typedef", "struct", n2, "", ""),
                                         Line("field", "int", "c", "", "")>> : n2 \in CaseVariants}}
    /\ lines2 = <<>>
    /\ vals = YMap(NoKeys)
    /\ flags = Flags(TRUE, FALSE, FALSE, FALSE)
    /\ env = Env(TRUE, FALSE, <<>>)

SpecCase == InitCase /\ [][Next]_vars

\* C16: the spellings of a type name that differ only in case name one node of the
\* graph, the fields declared under either being its children, and a reference
\* under one spelling to the type declared under the other is not undefined.
C16_CaseVariantsOneNode ==
    pc \in {"done", "exit"} =>
        /\ Cardinality({p \in DOMAIN built : Len(p) = 1 /\ p[1] \in CaseVariants}) <= 1
        /\ \A i \in 1..Len(genErr) : genErr[i] \notin CaseVariants
\* files mixing annotations with lines that match no pattern: prose and a
\* malformed @param (no type in braces); "section" is a pattern of the README
\* scanner alone, "value" of the generator's scanner alone
SkipLines ==
    {Line("typedef", "struct", "A", "", ""),
     Line("field", "string", "x", "", ""),
     Line("param", "A", "p", "", ""),
     Line("enum", "string", "E", "", ""),
     Line("value", "", "v", "", ""),
     Line("section", "", "S", "", ""),
     Line("other", "", "", "", ""),
     Line("other", "", "p", "", "")}

InitSkip ==
    /\ Start
    /\ lines \in SeqsUpTo(SkipLines, MaxLines)
    /\ lines2 = <<>>
    /\ vals = YMap(NoKeys)
    /\ flags = Flags(TRUE, FALSE, FALSE, TRUE)
    /\ env = Env(TRUE, FALSE, <<>>)

SpecSkip == InitSkip /\ [][Next]_vars

\* the file without its line i
RemoveLine(ls, i) == SubSeq(ls, 1, i - 1) \o SubSeq(ls, i + 1, Len(ls))

\* an enum is being collected when line i is read: the last @param, @typedef,
\* @enum or @field line above it is an @enum
EnumOpenAt(ls, i) ==
    \E j \in 1..(i - 1) :
        /\ ls[j].tag = "enum"
        /\ \A k \in (j + 1)..(i - 1) : ls[k].tag \notin {"param", "typedef", "enum", "field"}

\* line i matches no pattern of openapi.Parse
SkippedByParse(ls, i) ==
    \/ ls[i].tag \in {"other", "section"}
    \/ ls[i].tag = "value" /\ ~EnumOpenAt(ls, i)

\* line i matches no pattern of readme.parseMetadataComments
SkippedByMeta(ls, i) == ls[i].tag \in {"other", "value"}

OrphanField(ls, i) == ls[i].tag = "field" /\ \A j \in 1..(i - 1) : ls[j].tag # "typedef"

\* the same rows but for the values the enums collected
SameButEnums(r1, r2) ==
    /\ Len(r1) = Len(r2)
    /\ \A k \in 1..Len(r1) : [r1[k] EXCEPT !.Enums = <<>>] = [r2[k] EXCEPT !.Enums = <<>>]

\* C18 (as stated): a @field with no resolvable parent is dropped and changes
\* nothing: the rows, the graph and the README metadata of the file are those of
\* the file without the line.
C18_OrphanFieldChangesNothing ==
    pc \in {"done", "exit"} =>
        \A i \in 1..Len(lines) :
            OrphanField(lines, i) =>
                /\ rows = Parse(RemoveLine(lines, i))
                /\ built = Build(Parse(RemoveLine(lines, i)))
                /\ meta = parseMetadataComments(RemoveLine(lines, i), env.order)

\* C18 (amended): a @field with no resolvable parent gives no row, no node and no
\* README row, and the README metadata is that of the file without the line; the
\* rows are those of the file without the line when no enum is being collected at
\* the line, and differ from them in the values of the enums alone otherwise.
C18_OrphanFieldOnlyClosesEnum ==
    pc \in {"done", "exit"} =>
        \A i \in 1..Len(lines) :
            OrphanField(lines, i) =>
                LET without == Parse(RemoveLine(lines, i))
                    m == parseMetadataComments(RemoveLine(lines, i), env.order)
                IN  /\ SameButEnums(rows, without)
                    /\ ~EnumOpenAt(lines, i) => rows = without
                    /\ DOMAIN built = DOMAIN Build(without)
                    /\ meta = m
                    /\ pc = "done" => files["readme"] = SpliceReadme(env.readme, NewContent(m, vals))

\* C18 witness: an orphan @field stood between an @enum and its @value; it gave
\* no row and the enum was closed without the value
C18_OrphanFieldClosedEnum ==
    /\ pc = "done"
    /\ Len(lines) = 3
    /\ lines[1].tag = "enum" /\ lines[2].tag = "field" /\ lines[3].tag = "value"
    /\ Len(rows) = 1 /\ rows[1].K = kEnum /\ rows[1].Enums = <<>>
    /\ DOMAIN built = {<<"E">>}
\* files of enums, values and the lines that end or do not end an enum
EnumLines ==
    {Line("enum", "string", "E", "", ""),
     Line("enum", "int", "F", "", ""),
     Line("value", "", "v", "", ""),
     Line("value", "", "w", "", "first"),
     Line("param", "E", "p", "", ""),
     Line("typedef", "struct", "A", "", ""),
     Line("field", "string", "x", "", ""),
     Line("section", "", "S", "", ""),
     Line("other", "", "", "", "")}

InitEnum ==
    /\ Start
    /\ lines \in SeqsUpTo(EnumLines, MaxLines)
    /\ lines2 = <<>>
    /\ vals = YMap(NoKeys)
    /\ flags = Flags(TRUE, FALSE, FALSE, TRUE)
    /\ env = Env(TRUE, FALSE, <<>>)

SpecEnum == InitEnum /\ [][Next]_vars

\* the tokens of the @value lines from line k up to the next @param, @typedef,
\* @enum or @field line or the end of the file
RECURSIVE ValuesFrom(_, _)
ValuesFrom(ls, k) ==
    IF k > Len(ls) \/ ls[k].tag \in {"param", "typedef", "enum", "field"} THEN <<>>
    ELSE (IF ls[k].tag = "value" THEN <<ls[k].name>> ELSE <<>>) \o ValuesFrom(ls, k + 1)

\* for every @enum line from line j on, in order, its name and its values
RECURSIVE EnumsFrom(_, _)
EnumsFrom(ls, j) ==
    IF j > Len(ls) THEN <<>>
    ELSE (IF ls[j].tag = "enum" THEN <<(<<ls[j].name, ValuesFrom(ls, j + 1)>>)>> ELSE <<>>)
         \o EnumsFrom(ls, j + 1)

EnumRows == SelectSeq(rows, LAMBDA r : r.K = kEnum)

\* C19: the scanner gives one enum row for each @enum line, in order, carrying
\* exactly the tokens of the @value lines between that line and the next @param,
\* @typedef, @enum or @field line (or the end of the file), in source order; a
\* @value line anywhere else is in no enum.
C19_EnumCarriesItsValues ==
    pc # "start" =>
        [i \in 1..Len(EnumRows) |-> <<EnumRows[i].Path[1], EnumRows[i].Enums>>] = EnumsFrom(lines, 1)

\* C19 witness: an enum collected two values in source order
C19_TwoValuesInOrder ==
    /\ pc = "parsed"
    /\ Len(lines) = 3 /\ lines[1].tag = "enum"
    /\ lines[2] = Line("value", "", "w", "", "first") /\ lines[3] = Line("value", "", "v", "", "")
    /\ Len(rows) = 1 /\ rows[1].K = kEnum /\ rows[1].Enums = <<"w", "v">>
\* the wrappers of NestedTypes around the two object aliases
ObjectAliasTypes ==
    {w \o t : t \in {aliasObject, aliasEmptyObject},
              w \in {"", "*", "[]", "map[string]", "[]*", "*[]", "map[string]*", "[][]",
                     "map[string][]", "[]map[string]", "map[string]map[string]"}}

\* files referring to object or emptyobject from a parameter, and from a field
\* of a declared type or not
InitObjectAlias ==
    /\ Start
    /\ lines \in {d \o <<Line("param", t, "p", "", "")>> :
                    t \in ObjectAliasTypes,
                    d \in {<<>>}
                          \cup {<<Line("typedef", "struct", "Foo", "", ""),
                                  Line("field", u, "a", "", ""),
                                  Line("param", "Foo", "q", "", "")>> :
                                    u \in {aliasEmptyObject, "[]" \o aliasObject}}}
    /\ lines2 = <<>>
    /\ vals = YMap(NoKeys)
    /\ flags = Flags(TRUE, FALSE, FALSE, FALSE)
    /\ env \in {Env(TRUE, FALSE, o) : o \in Perms({"Foo", aliasEmptyObject})}

SpecObjectAlias == InitObjectAlias /\ [][Next]_vars

\* C20: the declarations never hold a struct for object, and hold the struct of
\* emptyobject whenever a type expression of the graph refers to emptyobject,
\* directly or under any nesting of pointers, arrays and maps.
C20_ObjectAliasStructs ==
    (pc \in {"done", "exit"} /\ genErr = <<>>) =>
        /\ camel(aliasObject) \notin Declared
        /\ (\E p \in DOMAIN built : TypeBase(built[p].TypeExpr) = aliasEmptyObject)
               => camel(aliasEmptyObject) \in Declared
\* files declaring Foo with one field and one parameter, each of a plain or a
\* wrapped type, its name written plain or in brackets
InitOmit ==
    /\ Start
    /\ lines \in {<<Line("typedef", "struct", "Foo", "", ""),
                    Line("field", t1, n1, "", ""),
                    Line("param", t2, n2, "", "")>> :
                    t1 \in {"string", "*string", "[]int", "map[string]string", "object"},
                    n1 \in {"a", "[a]"},
                    t2 \in {"string", "*int", "[]string", "map[string]int", "Foo", "*Foo", "quantity"},
                    n2 \in {"p", "[p]"}}
    /\ lines2 = <<>>
    /\ vals = YMap(NoKeys)
    /\ flags = Flags(TRUE, FALSE, FALSE, FALSE)
    /\ env \in {Env(TRUE, FALSE, o) : o \in Perms({"Foo", "p"})}

SpecOmit == InitOmit /\ [][Next]_vars

\* the annotation names its field in brackets
Bracketed(l) == HasPrefix(l.name, "[") /\ HasSuffix(l.name, "]")

\* the annotation's type is a pointer, an array or a map
WrappedType(l) ==
    LET t == TrimSpace(l.typ)
    IN  HasPrefix(t, "*") \/ HasPrefix(t, "[]") \/ (HasPrefix(t, "map[") /\ Contains(t, "]"))

\* the declaration of the given name among the Go declarations
GoDecl(name) ==
    LET code == files["go"] IN code[CHOOSE i \in 1..Len(code) : code[i].name = name]

\* C21: a generated field, of ConfigSpec or of a typedef's struct, carries
\* omitempty if and only if its type is an array, a map or a pointer, or its
\* name was written in brackets.
C21_OmitEmptyIffWrappedOrBracketed ==
    (pc \in {"done", "exit"} /\ genErr = <<>>) =>
        /\ GoField("p").omitempty = (WrappedType(lines[3]) \/ Bracketed(lines[3]))
        /\ GoDecl("Foo").fields[1].omitempty = (WrappedType(lines[2]) \/ Bracketed(lines[2]))

\* C21 witness: a string parameter written [p] and a string field written a were
\* generated, the first with omitempty and the second without
C21_BracketedPlainType ==
    /\ pc = "done"
    /\ lines[3].name = "[p]" /\ lines[3].typ = "string" /\ lines[2].name = "a" /\ lines[2].typ = "string"
    /\ GoField("p").typ = "string" /\ GoField("p").omitempty
    /\ ~GoDecl("Foo").fields[1].omitempty
\* longest README drawn
MaxReadme == 4

ReadmeTexts ==
    {TextLine("# Title"), TextLine("## Parameters"), TextLine("### Parameters"),
     TextLine("## Usage"), TextLine("### Details"), TextLine("text")}

\* the environment of a run over the README r
EnvReadme(r) ==
    [heading |-> HeadingAt(r, 1) # 0, cgFails |-> FALSE, order |-> <<>>, readme |-> r]

\* runs updating READMEs of every layout from a file of no, one or two sections
InitReadme ==
    /\ Start
    /\ lines \in {<<>>,
                  <<Line("param", "int", "n", "5", "replicas")>>,
                  <<Line("section", "", "Common", "", ""),
                    Line("param", "int", "n", "5", "replicas"),
                    Line("section", "", "Extra", "", "")>>}
    /\ lines2 = <<>>
    /\ vals \in {YMap(NoKeys), YMap("n" :> YInt("7"))}
    /\ flags = Flags(FALSE, FALSE, FALSE, TRUE)
    /\ env \in {EnvReadme(r) : r \in SeqsUpTo(ReadmeTexts, MaxReadme)}

SpecReadme == InitReadme /\ [][Next]_vars

\* a heading of depth at most level
HeadingUpTo(l, level) ==
    l.kind = "text" /\ Hashes(l.s) \in 1..level /\ Len(l.s) > Hashes(l.s)

\* the first heading of depth at most level from line i on, Len(ls) + 1 for none
RECURSIVE NextHeadingUpTo(_, _, _)
NextHeadingUpTo(ls, level, i) ==
    IF i > Len(ls) THEN Len(ls) + 1
    ELSE IF HeadingUpTo(ls[i], level) THEN i
    ELSE NextHeadingUpTo(ls, level, i + 1)

\* C22: a successful update replaces exactly the lines between the Parameters
\* heading and the next heading of equal or lesser depth (or the end of the file):
\* the lines up to the heading, and that next heading with everything after it,
\* are the README's before the run.
C22_ReadmeOutsideBlockKept ==
    (pc = "done" /\ "readme" \in DOMAIN files) =>
        LET old == env.readme
            h == HeadingAt(old, 1)
            e == NextHeadingUpTo(old, ParametersLevel(old[h]), h + 1)
        IN  files["readme"] = SubSeq(old, 1, h) \o NewContent(meta, vals) \o SubSeq(old, e, Len(old))
\* readme.UpdateParametersSection called on an earlier values file in the process
\* that then runs on the file of the run
DoEarlierFile ==
    /\ pc = "first"
    /\ LET m == parseMetadataCommentsOver(globals, env.earlier.lines, env.order)
           gl == Globals(env.earlier.vals, m.typeFields, m.KnownTypes, m.enumBaseTypes)
           e == UpdateError(m, env.earlier.vals, HeadingAt(env.readme, 1) # 0)
       IN  /\ globals' = gl
           /\ files' = IF e # "" THEN files
                       ELSE WriteFile(files, "earlier/readme",
                                      SpliceReadme(env.readme, NewContent(m, gl.valuesMap)))
    /\ pc' = "start"
    /\ UNCHANGED <<lines, lines2, vals, flags, env, rows, tree, built, genErr, meta, err, rows2, tree2>>

NextSeveral == DoEarlierFile \/ Next

\* values files declaring Foo with a field, with another field, as an enum, or
\* only referring to it
SeveralLines ==
    {<<Line("typedef", "struct", "Foo", "", ""), Line("field", "string", "a", "", ""),
       Line("param", "Foo", "p", "", "")>>,
     <<Line("typedef", "struct", "Foo", "", ""), Line("field", "int", "b", "1", ""),
       Line("param", "Foo", "p", "", "")>>,
     <<Line("enum", "string", "Foo", "", ""), Line("value", "", "v", "", ""),
       Line("param", "[]Foo", "p", "", "")>>,
     <<Line("param", "Foo", "p", "", "")>>,
     <<Line("section", "", "S", "", ""), Line("param", "int", "q", "5", "")>>}

SeveralValues ==
    {YMap(NoKeys), YMap("p" :> YMap("a" :> YStr("s"))), YMap("p" :> YMap("b" :> YInt("2"))),
     YMap("p" :> YArr(<<YStr("v")>>))}

InitSeveral ==
    /\ pc = "first"
    /\ rows = <<>> /\ tree = EmptyTree /\ built = EmptyTree /\ genErr = <<>>
    /\ meta = NoMeta /\ err = "" /\ files = NoFiles /\ rows2 = <<>> /\ tree2 = EmptyTree
    /\ globals = NoGlobals
    /\ lines \in SeveralLines
    /\ lines2 = <<>>
    /\ vals \in SeveralValues
    /\ flags = Flags(FALSE, FALSE, FALSE, TRUE)
    /\ env \in {Env(TRUE, FALSE, <<>>) @@ [earlier |-> [lines |-> l, vals |-> v]] :
                  l \in SeveralLines, v \in SeveralValues}

SpecSeveral == InitSeveral /\ [][NextSeveral]_vars

\* C23: the file processed after another file in the same process ends as it
\* ends processed alone: the same metadata, the same error, the same README,
\* nothing of the earlier file's parameters, types, fields, enums or values
\* showing.
C23_EarlierFileLeavesNoState ==
    pc \in {"done", "exit"} =>
        LET m == parseMetadataComments(lines, env.order)
            e == UpdateError(m, vals, HeadingAt(env.readme, 1) # 0)
        IN  /\ meta = m
            /\ err = e
            /\ e = "" => files["readme"] = SpliceReadme(env.readme, NewContent(m, vals))
            /\ globals = Globals(vals, m.typeFields, m.KnownTypes, m.enumBaseTypes)

\* C23 witness: the earlier file declared Foo with the field a and passed; the
\* later file only refers to Foo and fails as it does alone, Foo having no schema
C23_LaterFileFailsAlone ==
    /\ pc = "exit"
    /\ "earlier/readme" \in DOMAIN files
    /\ env.earlier.lines[1].tag = "typedef" /\ env.earlier.lines[2].name = "a"
    /\ Len(lines) = 1 /\ lines[1].typ = "Foo"
    /\ vals = YMap("p" :> YMap("a" :> YStr("s")))
    /\ err = "validate values: type 'Foo' referenced at 'p' has no schema"
\* C24: generating the Go declarations leaves the graph as default population
\* left it, every node keeping its type, enum values and default, so that the
\* generator run again on the graph gives the declarations it gave.
C24_GeneratorLeavesGraph ==
    (pc \notin {"start", "parsed", "built", "populated"} /\ genErr = <<>>) =>
        /\ tree = PopulateDefaults(built, <<>>, vals, env.order)
        /\ Generate(tree, env.order).code = files["tmp/values_generated.go"]
\* graphs with two structs or two enums below the root, under every iteration
\* order of the root's children
InitOrder ==
    /\ Start
    /\ lines \in {<<Line("typedef", "struct", "A", "", ""), Line("field", "string", "x", "", ""),
                    Line("typedef", "struct", "B", "", ""), Line("field", "int", "y", "", ""),
                    Line("field", "int", "x", "", "")>>,
                  <<Line("enum", "string", "E", "", ""), Line("value", "", "v", "", ""),
                    Line("enum", "string", "F", "", ""), Line("value", "", "w", "", "")>>,
                  <<Line("typedef", "struct", "A", "", ""), Line("field", "string", "x", "", ""),
                    Line("param", "A", "p", "", "")>>}
    /\ lines2 = <<>>
    /\ vals = YMap(NoKeys)
    /\ flags = Flags(TRUE, FALSE, FALSE, FALSE)
    /\ env \in {Env(TRUE, FALSE, o) : o \in Perms({"A", "B", "E", "F"})}

SpecOrder == InitOrder /\ [][Next]_vars

\* C25: the declarations generated from a graph do not depend on the iteration
\* order of the children maps: fields, structs and enums come in sorted-name order.
C25_DeclarationsInSortedOrder ==
    (pc \notin {"start", "parsed", "built", "populated"} /\ genErr = <<>>) =>
        LET code == files["tmp/values_generated.go"]
        IN  /\ code = Generate(PopulateDefaults(built, <<>>, vals, <<>>), <<>>).code
            /\ \A i, j \in 2..Len(code) :
                   (i < j /\ code[i].decl = code[j].decl) => StrLess(code[i].name, code[j].name)
\* files referring to Foo, declared with a field, with no field, as an enum with a
\* value or with none, or not at all, and documents that reach the reference
InitSchema ==
    /\ Start
    /\ lines \in {d \o <<Line("param", t, "p", "", "")>> :
                    t \in {"Foo", "*Foo", "[]Foo", "map[string]Foo"},
                    d \in TypeDecls \cup {<<Line("enum", "string", "Foo", "", "")>>}}
    /\ lines2 = <<>>
    /\ vals \in {YMap("p" :> v) : v \in Docs(1)} \cup {YMap(NoKeys)}
    /\ flags = Flags(TRUE, FALSE, FALSE, TRUE)
    /\ env = Env(TRUE, FALSE, <<>>)

SpecSchema == InitSchema /\ [][Next]_vars

\* the document holds a value at the named type of the type expression
ReachesType(typ, val) ==
    IF HasPrefix(typ, "[]") THEN val.k = "array" /\ Len(val.a) > 0
    ELSE IF HasPrefix(typ, "map[") THEN val.k = "map" /\ DOMAIN val.m # {}
    ELSE TRUE

\* C26: for a type name referenced by an annotation and reached in the values
\* document, validation reports "has no schema" if and only if CollectUndefined
\* lists the name.
C26_NoSchemaIffUndefined ==
    (pc \in {"done", "exit"} /\ "p" \in DOMAIN vals.m
        /\ ReachesType(lines[Len(lines)].typ, vals.m["p"])) =>
        (HasPrefix(err, "validate values: type 'Foo' referenced at") /\ HasSuffix(err, "has no schema"))
            <=> (\E i \in 1..Len(CollectUndefined(built)) : CollectUndefined(built)[i] = "Foo")
\* the declarations the generator's scanner and graph hold
GraphParams == {<<built[p].Name, built[p].TypeExpr>> : p \in {q \in DOMAIN built : Len(q) = 1 /\ built[q].IsParam}}
GraphFields == {<<p[1], p[2], built[p].TypeExpr>> : p \in {q \in DOMAIN built : Len(q) = 2}}
GraphEnums == {<<rows[i].Path[1], rows[i].TypeExpr>> : i \in {j \in 1..Len(rows) : rows[j].K = kEnum}}

\* the declarations the README's scanner holds
MetaParams ==
    LET ps == SectionParams(meta.Sections)
    IN  {<<ps[i].Name, ps[i].TypeOriginal>> : i \in 1..Len(ps)}
MetaFields ==
    UNION {{<<t, meta.typeFields[t][i].Name, meta.typeFields[t][i].Type>> :
              i \in 1..Len(meta.typeFields[t])} : t \in DOMAIN meta.typeFields}
MetaEnums == {<<e, meta.enumBaseTypes[e]>> : e \in DOMAIN meta.enumBaseTypes}

\* C27: the two scanners derive the same declarations from a file: the same
\* parameters with the same types, the same (parent type, field, type) triples,
\* the same enums.
C27_ScannersAgree ==
    (pc \in {"done", "exit"} /\ flags.outReadme) =>
        /\ GraphParams = MetaParams
        /\ GraphFields = MetaFields
        /\ GraphEnums = MetaEnums
\* two parameters of one named type, with samples for the type's field, under
\* both iteration orders of the document's keys
InitSamples ==
    /\ Start
    /\ lines \in {<<Line("typedef", "struct", "Foo", "", ""), Line("field", "string", "a", d, ""),
                    Line("param", t, "p", "", ""), Line("param", "Foo", "q", "", "")>> :
                    d \in {"", "\"x\""}, t \in {"Foo", "*Foo", "string"}}
    /\ lines2 = <<>>
    /\ vals \in {YMap(("p" :> YMap("a" :> YStr(s1))) @@ ("q" :> YMap("a" :> YStr(s2)))) :
                   s1 \in {"s", "t"}, s2 \in {"s", "t"}}
                \cup {YMap("q" :> YMap("a" :> YStr("s"))), YMap(NoKeys)}
    /\ flags = Flags(TRUE, FALSE, FALSE, FALSE)
    /\ env \in {Env(TRUE, FALSE, o) : o \in Perms({"p", "q"})}

SpecSamples == InitSamples /\ [][Next]_vars

\* C28: the graph PopulateDefaults leaves does not depend on the order in which
\* the keys of the values document are visited.
C28_PopulateOrderIndependent ==
    pc = "populated" =>
        \A o \in Perms({"p", "q"}) : tree = PopulateDefaults(built, <<>>, vals, o)

\* the tool run a second time with the same values file on the README the first
\* run wrote, the README being the one output requested
DoUpdateAgain ==
    /\ pc = "done"
    /\ flags = Flags(FALSE, FALSE, FALSE, TRUE)
    /\ LET m == parseMetadataComments(lines, env.order)
           gl == Globals(vals, m.typeFields, m.KnownTypes, m.enumBaseTypes)
           e == UpdateError(m, vals, HeadingAt(files["readme"], 1) # 0)
       IN  \E content \in {NewContent(m, gl.valuesMap)} :
           \E crash \in {Crashes(m, gl.valuesMap, content)} :
               /\ meta' = m
               /\ globals' = gl
               /\ err' = IF crash THEN "fatal error: stack overflow" ELSE e
               /\ pc' = IF crash THEN "crash" ELSE IF e # "" THEN "exit" ELSE "again"
               /\ files' = IF crash \/ e # "" THEN files
                           ELSE WriteFile(files, "readme", SpliceReadme(files["readme"], content))
    /\ UNCHANGED <<lines, lines2, vals, flags, env, rows, tree, built, genErr, rows2, tree2>>

NextAgain == Next \/ DoUpdateAgain

SpecAgain == InitReadme /\ [][NextAgain]_vars

\* C29: a second update with the same values file leaves the README as the first
\* update wrote it.
C29_UpdateIdempotent ==
    pc = "again" =>
        files["readme"] = SpliceReadme(env.readme, NewContent(meta, vals))

\* runs over a typedef whose one field is a string or refers back to the typedef,
\* directly or through a pointer, an array or a map, with every output requested
\* or the README alone
RecursiveTypes == {"string", "Foo", "*Foo", "[]Foo", "map[string]Foo"}

InitRecursive ==
    /\ Start
    /\ lines \in {<<Line("typedef", "struct", "Foo", "", "")>> \o fs
                    \o <<Line("param", "Foo", "p", "", "")>> :
                    fs \in {<<Line("field", t, "a", "", "")>> : t \in RecursiveTypes}
                           \cup {<<Line("field", "string", "a", "", ""),
                                   Line("field", t, "b", "", "")>> : t \in RecursiveTypes}}
    /\ lines2 = <<>>
    /\ vals \in {YMap(NoKeys), YMap("p" :> YMap(NoKeys))}
    /\ flags \in {Flags(FALSE, FALSE, FALSE, TRUE), Flags(TRUE, TRUE, TRUE, TRUE)}
    /\ env \in {Env(TRUE, c, <<>>) : c \in BOOLEAN}

SpecRecursive == InitRecursive /\ [][Next]_vars

\* C30: every stage finishes on every input, a typedef with a field that refers
\* back to the typedef included: no run ends in a stage that ran out of stack.
C30_EveryStageFinishes == pc # "crash"

====
